---- MODULE Spec2Model ----
(***************************************************************************)
(* 10xCards: the study-session hook (useStudySession) and the generation   *)
(* pipeline (generateFlashcards, FlashcardService.createFlashcard and      *)
(* FlashcardService.bulkCreateFlashcards with their API routes).           *)
(***************************************************************************)
EXTENDS Integers, Sequences, FiniteSets, TLC

\* ------------------------------------------------------------------------
\* Bounds of the model
\* ------------------------------------------------------------------------
MaxCardIds == 2    \* distinct flashcard ids that input lists are drawn from
MaxListLen == 2    \* longest input list handed to useStudySession
MaxNexts == 4      \* longest run of goToNext() tracked from a fresh session
MaxCalls == 2      \* API requests started in one behaviour
MaxSuggested == 2  \* most flashcards a well-formed completion carries
MaxCurated == 2    \* longest curated list sent to the bulk endpoint
MaxFree == 2       \* most free slots the deck d1 starts with

Min(a, b) == IF a <= b THEN a ELSE b
Max(a, b) == IF a >= b THEN a ELSE b

\* ------------------------------------------------------------------------
\* State
\* ------------------------------------------------------------------------
VARIABLES
    session,          \* StudySessionViewModel held by useState
    flashcardsRef,    \* flashcardsRef.current
    initialFlashcards,\* the array passed to the hook by the latest render
    nextsFromFresh,   \* history: number of goToNext() calls made since the
                      \* session was (re)initialized or restarted, when no
                      \* other operation intervened; -1 otherwise
    lastOp            \* history: the latest operation on the hook and
                      \* whether the session was complete when it was called

VARIABLES
    rowLevelSecurity, \* TRUE when the Supabase client is bound by the row
                      \* level security policies (role authenticated), FALSE
                      \* when it bypasses them (service role key)
    flashcards,       \* table public.flashcards, in insertion order
    generations,      \* table public.generations; the row id is its index
    generation_errors,\* table public.generation_errors
    reqs,             \* the API requests in flight, one per slot
    started           \* number of API requests started so far

VARIABLES
    state,            \* GenerationState held by useReducer in GenerationModal
    saveError,        \* saveError held by useState
    editFilled,       \* TRUE when editFront and editBack are both non-blank
    isOpen,           \* isGenerationModalOpen of DeckDetailView
    inFlight,         \* the fetch calls of the modal that have not settled
    issued,           \* number of fetch calls the modal has made
    modalOp,          \* history: the latest handler or response of the modal
    submitted,        \* history: the text sent by the latest handleGenerate
    failedCommit      \* history: generationId and flashcards of a commit that
                      \* failed, until the modal is closed or used again

VARIABLES
    shuffleRun        \* one call of shuffleArray: its position, the array
                      \* passed, the copy being shuffled, the loop index i,
                      \* and as history the array as it was passed and the
                      \* values of j drawn so far

studyVars == <<session, flashcardsRef, initialFlashcards, nextsFromFresh, lastOp>>
serverVars == <<rowLevelSecurity, flashcards, generations, generation_errors,
                reqs, started>>
modalVars == <<state, saveError, editFilled, isOpen, inFlight, issued, modalOp,
               submitted, failedCommit>>
vars == <<session, flashcardsRef, initialFlashcards, nextsFromFresh, lastOp,
          rowLevelSecurity, flashcards, generations, generation_errors, reqs,
          started, state, saveError, editFilled, isOpen, inFlight, issued,
          modalOp, submitted, failedCommit, shuffleRun>>
shuffleVars == <<shuffleRun>>

\* ------------------------------------------------------------------------
\* useStudySession
\* ------------------------------------------------------------------------
CardIds == 1..MaxCardIds

RECURSIVE ListsOfLen(_)
ListsOfLen(n) ==
    IF n = 0 THEN {<<>>}
    ELSE {Append(l, c) : l \in ListsOfLen(n - 1), c \in CardIds}

\* the initialFlashcards arrays a caller can pass (ids only; duplicates allowed)
InputLists == UNION {ListsOfLen(n) : n \in 0..MaxListLen}

\* mutant: shuffled[i] = shuffled[j] without the exchange
SwapOverwrites(arr, i, j) ==
    [k \in DOMAIN arr |-> IF k = i + 1 THEN arr[j + 1] ELSE arr[k]]

\* [shuffled[i], shuffled[j]] = [shuffled[j], shuffled[i]], 0-based i and j
Swap(arr, i, j) ==
    [k \in DOMAIN arr |->
        IF k = i + 1 THEN arr[j + 1]
        ELSE IF k = j + 1 THEN arr[i + 1]
        ELSE arr[k]]

\* mutant: the element at i is never left where it is
RandomIndexNeverSelf(i) == 0..(i - 1)

\* Math.floor(Math.random() * (i + 1))
RandomIndex(i) == 0..i

\* the loop of shuffleArray from index i downwards: every array the loop can
\* end with, one for each value of j = floor(random() * (i + 1)) in 0..i
RECURSIVE shuffleLoop(_, _)
shuffleLoop(arr, i) ==
    IF i > 0
    THEN UNION {shuffleLoop(Swap(arr, i, j), i - 1) : j \in RandomIndex(i)}
    ELSE {arr}

\* mutant: every position is drawn from the whole array
shuffleArrayWithReplacement(array) ==
    {s \in [DOMAIN array -> {array[k] : k \in DOMAIN array}] : TRUE}

shuffleArray(array) == shuffleLoop(array, Len(array) - 1)

\* session.shuffledFlashcards[session.currentIndex], as an optional value:
\* <<card>> when the index is inside the array, <<>> for undefined
Undefined == <<>>
currentCard ==
    IF session.currentIndex + 1 \in DOMAIN session.shuffledFlashcards
    THEN <<session.shuffledFlashcards[session.currentIndex + 1]>>
    ELSE Undefined

\* StudyView: {currentCard && <StudyCard ... />}
StudyCardRendered == currentCard # Undefined

\* the initial state of useState and the state set by the effect
InitialSessions(cards) ==
    {[shuffledFlashcards |-> s,
      currentIndex |-> 0,
      isFlipped |-> FALSE,
      isComplete |-> FALSE,
      totalCards |-> Len(cards)] : s \in shuffleArray(cards)}

\* the record kept in lastOp for a call of op
Op(op) == [op |-> op, wasComplete |-> session.isComplete]

useStudySessionInit ==
    \E cards \in InputLists :
        /\ initialFlashcards = cards
        /\ session \in InitialSessions(cards)
        /\ flashcardsRef = cards
        /\ nextsFromFresh = 0
        /\ lastOp = [op |-> "useStudySession", wasComplete |-> FALSE]

\* mutant: arrays of one length always pass for the same list
SameIdsByLength(cur, new) == TRUE

\* flashcardsRef.current.every((card, i) => card.id === initialFlashcards[i]?.id)
SameIds(cur, new) ==
    \A i \in DOMAIN cur : i \in DOMAIN new /\ cur[i] = new[i]

\* a re-render with a new initialFlashcards array, followed by the effect
Rerender ==
    /\ \E cards \in InputLists :
        /\ initialFlashcards' = cards
        /\ IF Len(flashcardsRef) # Len(cards) \/ ~SameIds(flashcardsRef, cards)
           THEN /\ flashcardsRef' = cards
                /\ session' \in InitialSessions(cards)
                /\ nextsFromFresh' = 0
                /\ lastOp' = Op("reset")
           ELSE /\ UNCHANGED <<session, flashcardsRef, nextsFromFresh>>
                /\ lastOp' = Op("rerender")
    /\ UNCHANGED <<serverVars, modalVars, shuffleVars>>

\* mutant: the completion test is off by one (> instead of >=)
goToNextStateLate(prev) ==
    LET nextIndex == prev.currentIndex + 1 IN
    IF nextIndex > prev.totalCards
    THEN [prev EXCEPT !.isComplete = TRUE, !.isFlipped = FALSE]
    ELSE [prev EXCEPT !.currentIndex = nextIndex, !.isFlipped = FALSE]

\* mutant: the session completes one card early
goToNextStateEarly(prev) ==
    LET nextIndex == prev.currentIndex + 1 IN
    IF nextIndex >= prev.totalCards - 1
    THEN [prev EXCEPT !.isComplete = TRUE, !.isFlipped = FALSE]
    ELSE [prev EXCEPT !.currentIndex = nextIndex, !.isFlipped = FALSE]

\* mutant: the completing call moves the index as well
goToNextStateOverflows(prev) ==
    LET nextIndex == prev.currentIndex + 1 IN
    IF nextIndex >= prev.totalCards
    THEN [prev EXCEPT !.isComplete = TRUE, !.isFlipped = FALSE,
                      !.currentIndex = Min(nextIndex, prev.totalCards)]
    ELSE [prev EXCEPT !.currentIndex = nextIndex, !.isFlipped = FALSE]

goToNextState(prev) ==
    LET nextIndex == prev.currentIndex + 1 IN
    IF nextIndex >= prev.totalCards
    THEN [prev EXCEPT !.isComplete = TRUE, !.isFlipped = FALSE]
    ELSE [prev EXCEPT !.currentIndex = nextIndex, !.isFlipped = FALSE]

goToNext ==
    /\ session' = goToNextState(session)
    /\ nextsFromFresh' =
         IF nextsFromFresh >= 0 /\ nextsFromFresh < MaxNexts
         THEN nextsFromFresh + 1 ELSE -1
    /\ lastOp' = Op("goToNext")
    /\ UNCHANGED <<flashcardsRef, initialFlashcards, serverVars, modalVars, shuffleVars>>

\* mutant: previous() on the first card turns the card back to its front
goToPreviousStateUnflips(prev) ==
    IF prev.currentIndex = 0
    THEN [prev EXCEPT !.isFlipped = FALSE]
    ELSE [prev EXCEPT !.currentIndex = prev.currentIndex - 1, !.isFlipped = FALSE]

\* mutant: no floor at the first card
goToPreviousStateNoFloor(prev) ==
    [prev EXCEPT !.currentIndex = prev.currentIndex - 1, !.isFlipped = FALSE]

\* mutant: going back reopens a complete session
goToPreviousStateReopens(prev) ==
    IF prev.currentIndex = 0
    THEN prev
    ELSE [prev EXCEPT !.currentIndex = prev.currentIndex - 1, !.isFlipped = FALSE,
                      !.isComplete = FALSE]

goToPreviousState(prev) ==
    IF prev.currentIndex = 0
    THEN prev
    ELSE [prev EXCEPT !.currentIndex = prev.currentIndex - 1, !.isFlipped = FALSE]

goToPrevious ==
    /\ session' = goToPreviousState(session)
    /\ nextsFromFresh' = -1
    /\ lastOp' = Op("goToPrevious")
    /\ UNCHANGED <<flashcardsRef, initialFlashcards, serverVars, modalVars, shuffleVars>>

\* mutant: flip always shows the back
flipCardStateShowsBack(prev) == [prev EXCEPT !.isFlipped = TRUE]

flipCardState(prev) == [prev EXCEPT !.isFlipped = ~prev.isFlipped]

flipCard ==
    /\ session' = flipCardState(session)
    /\ nextsFromFresh' = -1
    /\ lastOp' = Op("flipCard")
    /\ UNCHANGED <<flashcardsRef, initialFlashcards, serverVars, modalVars, shuffleVars>>

\* mutant: restart reshuffles and rewinds but leaves isComplete as it is
restartSessionKeepsComplete ==
    /\ \E s \in shuffleArray(session.shuffledFlashcards) :
          session' = [session EXCEPT !.shuffledFlashcards = s,
                                     !.currentIndex = 0,
                                     !.isFlipped = FALSE]
    /\ nextsFromFresh' = 0
    /\ lastOp' = Op("restartSession")
    /\ UNCHANGED <<flashcardsRef, initialFlashcards, serverVars, modalVars, shuffleVars>>

restartSession ==
    /\ \E s \in shuffleArray(session.shuffledFlashcards) :
          session' = [session EXCEPT !.shuffledFlashcards = s,
                                     !.currentIndex = 0,
                                     !.isFlipped = FALSE,
                                     !.isComplete = FALSE]
    /\ nextsFromFresh' = 0
    /\ lastOp' = Op("restartSession")
    /\ UNCHANGED <<flashcardsRef, initialFlashcards, serverVars, modalVars, shuffleVars>>

\* ------------------------------------------------------------------------
\* shuffleArray, statement by statement
\* ------------------------------------------------------------------------
MaxShuffleLen == 3

\* the arrays of distinct cards a caller can pass
ShuffleInputs ==
    {a \in UNION {[1..n -> 1..MaxShuffleLen] : n \in 0..MaxShuffleLen} :
        \A k, m \in DOMAIN a : a[k] = a[m] => k = m}

ShuffleIdle ==
    shuffleRun = [pc |-> "idle", array |-> <<>>, given |-> <<>>,
                  shuffled |-> <<>>, i |-> 0, js |-> <<>>]

\* const shuffled = [...array]; let i = shuffled.length - 1
shuffleArrayCall ==
    /\ shuffleRun.pc \in {"idle", "returned"}
    /\ \E array \in ShuffleInputs :
          shuffleRun' = [pc |-> "loop", array |-> array, given |-> array,
                         shuffled |-> array, i |-> Len(array) - 1, js |-> <<>>]
    /\ UNCHANGED <<studyVars, serverVars, modalVars>>

\* one pass of the loop body, then i--
shuffleArrayStep ==
    /\ shuffleRun.pc = "loop"
    /\ shuffleRun.i > 0
    /\ \E j \in RandomIndex(shuffleRun.i) :
          shuffleRun' = [shuffleRun EXCEPT
              !.shuffled = Swap(shuffleRun.shuffled, shuffleRun.i, j),
              !.i = shuffleRun.i - 1,
              !.js = Append(shuffleRun.js, j)]
    /\ UNCHANGED <<studyVars, serverVars, modalVars>>

\* the loop condition fails: return shuffled
shuffleArrayReturn ==
    /\ shuffleRun.pc = "loop"
    /\ ~(shuffleRun.i > 0)
    /\ shuffleRun' = [shuffleRun EXCEPT !.pc = "returned"]
    /\ UNCHANGED <<studyVars, serverVars, modalVars>>

\* ------------------------------------------------------------------------
\* Datastore (supabase migration 20251008100000_initial_schema)
\* ------------------------------------------------------------------------
\* optional values: Null is SQL null / JS undefined, Some(x) a present value
Null == <<>>
Some(x) == <<x>>

\* program constants
MaxFlashcardsPerDeck == 100
MinSuggestions == 1
MaxSuggestions == 20
MinTextLength == 1
MaxTextLength == 5000
MinBulkFlashcards == 1
MaxBulkFlashcards == 100

\* table public.decks: id -> user_id (deck CRUD is not modelled)
decks == [d \in {"d1", "d2"} |-> IF d = "d1" THEN "u1" ELSE "u2"]
\* deck ids a request can name; "d0" is the id of no deck
DeckIds == {"d1", "d2", "d0"}
\* locals.user?.id of a request; NoUser is a request without a session
NoUser == "anonymous"
Callers == {"u1", NoUser}

\* rows a select on public.decks returns to userId: policy "authenticated
\* users can view their own decks", unless the client bypasses the policies
VisibleDecks(userId) ==
    {d \in DOMAIN decks : ~rowLevelSecurity \/ decks[d] = userId}

\* .from("decks").select(...).eq("id", deckId).single(): PGRST116 when no row
SelectDeck(userId, deckId, dbOk) ==
    IF ~dbOk THEN [error |-> "DBERROR", data |-> Null]
    ELSE IF deckId \in VisibleDecks(userId)
    THEN [error |-> "", data |-> Some([id |-> deckId, user_id |-> decks[deckId]])]
    ELSE [error |-> "PGRST116", data |-> Null]

\* number of flashcards rows of a deck the caller can see
CountFlashcards(userId, deckId) ==
    IF deckId \in VisibleDecks(userId)
    THEN Cardinality({i \in DOMAIN flashcards : flashcards[i].deck_id = deckId})
    ELSE 0

DeckSize(deckId) ==
    Cardinality({i \in DOMAIN flashcards : flashcards[i].deck_id = deckId})

\* ------------------------------------------------------------------------
\* API requests
\* ------------------------------------------------------------------------
Reqs == {"r1", "r2"}

IdleReq ==
    [kind |-> "none", pc |-> "idle", userId |-> NoUser, deckId |-> "d0",
     textLen |-> 0, generationId |-> 0, cards |-> <<>>,
     env |-> Null, provider |-> Null, suggested |-> 0, newGenerationId |-> Null,
     flashcardCount |-> 0, cardsToAdd |-> 0, cardsSkipped |-> 0,
     fetches |-> 0, logAttempts |-> 0,
     inserted |-> 0, startCount |-> 0, startAccepted |-> Null,
     status |-> 0, error |-> "", message |-> "", body |-> Null]

\* the response of a route: its HTTP status, the error the service threw
\* (class and message) and the JSON body
Respond(req, status, error, message, body) ==
    [req EXCEPT !.pc = "done", !.status = status, !.error = error,
                !.message = message, !.body = body]

ErrorBody(text) == Some([error |-> text])
InternalServerError == "Internal server error. Please try again later."

\* ------------------------------------------------------------------------
\* OpenRouterService
\* ------------------------------------------------------------------------
\* import.meta.env as the constructor sees it
Environments ==
    {[apiKey |-> k, siteUrl |-> u] : k \in BOOLEAN, u \in BOOLEAN}
GoodEnv == [apiKey |-> TRUE, siteUrl |-> TRUE]

\* what the provider does with one fetch: the transport may throw; otherwise
\* an HTTP status, a body that is JSON or not, a number of choices, and a
\* message content that is empty, free text, or JSON holding `shapeOk` and a
\* number of flashcards
GoodResponse(k) ==
    [transport |-> "ok", status |-> 200, bodyJson |-> TRUE, choices |-> 1,
     content |-> "json", shapeOk |-> TRUE, flashcards |-> k]

ProviderResponses ==
    {GoodResponse(k) : k \in 0..MaxSuggested}
    \cup {GoodResponse(MaxSuggestions), GoodResponse(MaxSuggestions + 1)}
    \cup {[GoodResponse(1) EXCEPT !.transport = "throw"]}
    \cup {[GoodResponse(1) EXCEPT !.status = st] : st \in {400, 401, 429, 500, 503}}
    \cup {[GoodResponse(1) EXCEPT !.bodyJson = FALSE]}
    \cup {[GoodResponse(1) EXCEPT !.choices = 0]}
    \cup {[GoodResponse(1) EXCEPT !.content = c] : c \in {"", "text"}}
    \cup {[GoodResponse(1) EXCEPT !.shapeOk = FALSE]}

\* new OpenRouterService()
Constructor(env) ==
    IF ~env.apiKey THEN "ConfigurationError"
    ELSE IF ~env.siteUrl THEN "ConfigurationError"
    ELSE ""

\* executeRequest: the error thrown, "" when the body is returned
executeRequest(resp) ==
    IF resp.transport = "throw" THEN "NetworkError"
    ELSE IF ~(resp.status \in 200..299)
    THEN CASE resp.status = 400 -> "BadRequestError"
           [] resp.status = 401 -> "AuthenticationError"
           [] resp.status = 429 -> "RateLimitError"
           [] OTHER -> "ApiError"
    ELSE IF ~resp.bodyJson THEN "ApiError"
    ELSE ""

\* flashcardsResponseSchema.safeParse(parsedJson).success
flashcardsResponseSchema(resp) ==
    /\ resp.shapeOk
    /\ resp.flashcards >= MinSuggestions
    /\ resp.flashcards <= MaxSuggestions

\* mutant: the message content is returned without JSON.parse and safeParse
parseResponseUnchecked(resp) ==
    IF resp.choices = 0 THEN "ApiError"
    ELSE IF resp.content = "" THEN "ApiError"
    ELSE ""

\* parseResponse: the error thrown, "" when validationResult.data is returned
parseResponse(resp) ==
    IF resp.choices = 0 THEN "ApiError"
    ELSE IF resp.content = "" THEN "ApiError"
    ELSE IF resp.content # "json" THEN "ValidationError"
    ELSE IF ~flashcardsResponseSchema(resp) THEN "ValidationError"
    ELSE ""

\* getChatCompletion: custom errors are re-thrown as they are
getChatCompletion(resp) ==
    IF executeRequest(resp) # ""
    THEN [error |-> executeRequest(resp), flashcards |-> 0]
    ELSE IF parseResponse(resp) # ""
    THEN [error |-> parseResponse(resp), flashcards |-> 0]
    ELSE [error |-> "", flashcards |-> resp.flashcards]

\* ------------------------------------------------------------------------
\* POST /api/generations and generateFlashcards
\* ------------------------------------------------------------------------
TextLengths == {0, MinTextLength, MaxTextLength, MaxTextLength + 1}

\* generateFlashcardsSchema.safeParse(requestBody).success
generateFlashcardsSchema(textLen) ==
    textLen >= MinTextLength /\ textLen <= MaxTextLength

\* the catch block of the route
SuggestRoute(req, error, message) ==
    IF error = "DeckNotFoundError" THEN Respond(req, 404, error, message, ErrorBody(message))
    ELSE IF error = "GenerationError" THEN Respond(req, 500, error, message, ErrorBody(message))
    ELSE Respond(req, 500, error, message, ErrorBody(InternalServerError))

\* mutant: the route does not look at locals.user
StartSuggestUnguarded(r) ==
    /\ reqs[r].pc = "idle"
    /\ started < MaxCalls
    /\ started' = started + 1
    /\ \E userId \in Callers, deckId \in DeckIds, textLen \in TextLengths :
          LET req == [IdleReq EXCEPT !.kind = "suggest", !.userId = userId,
                                     !.deckId = deckId, !.textLen = textLen] IN
          reqs' = [reqs EXCEPT ![r] =
              IF ~generateFlashcardsSchema(textLen)
              THEN Respond(req, 400, "", "", ErrorBody("Invalid request body"))
              ELSE [req EXCEPT !.pc = "s_deck"]]
    /\ UNCHANGED <<rowLevelSecurity, flashcards, generations, generation_errors, studyVars, modalVars, shuffleVars>>

StartSuggest(r) ==
    /\ reqs[r].pc = "idle"
    /\ started < MaxCalls
    /\ started' = started + 1
    /\ \E userId \in Callers, deckId \in DeckIds, textLen \in TextLengths :
          LET req == [IdleReq EXCEPT !.kind = "suggest", !.userId = userId,
                                     !.deckId = deckId, !.textLen = textLen] IN
          reqs' = [reqs EXCEPT ![r] =
              IF userId = NoUser
              THEN Respond(req, 401, "", "", ErrorBody("Unauthorized. Please log in."))
              ELSE IF ~generateFlashcardsSchema(textLen)
              THEN Respond(req, 400, "", "", ErrorBody("Invalid request body"))
              ELSE [req EXCEPT !.pc = "s_deck"]]
    /\ UNCHANGED <<rowLevelSecurity, flashcards, generations, generation_errors, studyVars, modalVars, shuffleVars>>

\* mutant: the owner comparison of step 1 is dropped
verifyDeckOwnershipNoOwnerCheck(res, userId) ==
    IF res.error # "" \/ res.data = Null THEN "Deck not found" ELSE ""

\* step 1 of generateFlashcards: the message of the DeckNotFoundError thrown,
\* "" when the deck is the caller's
verifyDeckOwnership(res, userId) ==
    IF res.error # "" \/ res.data = Null THEN "Deck not found"
    ELSE IF res.data[1].user_id # userId THEN "You do not have access to this deck"
    ELSE ""

SuggestVerifyDeck(r) ==
    /\ reqs[r].pc = "s_deck"
    /\ \E dbOk \in BOOLEAN :
          LET req == reqs[r]
              msg == verifyDeckOwnership(SelectDeck(req.userId, req.deckId, dbOk), req.userId) IN
          reqs' = [reqs EXCEPT ![r] =
              IF msg # ""
              THEN SuggestRoute(req, "DeckNotFoundError", msg)
              ELSE [req EXCEPT !.pc = "s_ai"]]
    /\ UNCHANGED <<rowLevelSecurity, flashcards, generations, generation_errors, started, studyVars, modalVars, shuffleVars>>

\* mutant: a NetworkError falls through to the generic API message
GenerationErrorMessageNoNetwork(error) ==
    CASE error = "ConfigurationError" -> "Service configuration error. Please contact support."
      [] error = "AuthenticationError" -> "AI service authentication failed. Please contact support."
      [] error = "RateLimitError" -> "AI service rate limit exceeded. Please try again in a few moments."
      [] error = "ValidationError" -> "AI returned an unexpected response format. Please try again."
      [] error \in {"BadRequestError", "ApiError", "NetworkError"} -> "AI service error. Please try again."
      [] error = "NoFlashcards" -> "AI did not generate any flashcards. Please try again with different text."
      [] OTHER -> "An unexpected error occurred during generation. Please try again."

\* mutant: a ValidationError is reported as a generic API error
GenerationErrorMessageNoValidation(error) ==
    CASE error = "ConfigurationError" -> "Service configuration error. Please contact support."
      [] error = "AuthenticationError" -> "AI service authentication failed. Please contact support."
      [] error = "RateLimitError" -> "AI service rate limit exceeded. Please try again in a few moments."
      [] error = "NetworkError" -> "Network error connecting to AI service. Please check your connection and try again."
      [] error \in {"BadRequestError", "ApiError", "ValidationError"} -> "AI service error. Please try again."
      [] error = "NoFlashcards" -> "AI did not generate any flashcards. Please try again with different text."
      [] OTHER -> "An unexpected error occurred during generation. Please try again."

\* the catch block of step 2: the message of the GenerationError thrown for
\* the error caught ("NoFlashcards" is the GenerationError of the length check)
GenerationErrorMessage(error) ==
    CASE error = "ConfigurationError" -> "Service configuration error. Please contact support."
      [] error = "AuthenticationError" -> "AI service authentication failed. Please contact support."
      [] error = "RateLimitError" -> "AI service rate limit exceeded. Please try again in a few moments."
      [] error = "NetworkError" -> "Network error connecting to AI service. Please check your connection and try again."
      [] error = "ValidationError" -> "AI returned an unexpected response format. Please try again."
      [] error \in {"BadRequestError", "ApiError"} -> "AI service error. Please try again."
      [] error = "NoFlashcards" -> "AI did not generate any flashcards. Please try again with different text."
      [] OTHER -> "An unexpected error occurred during generation. Please try again."

\* mutant: a rate-limit or network failure is followed by a second call
CompletionRetries(env, resp) ==
    IF Constructor(env) # ""
    THEN [error |-> Constructor(env), flashcards |-> 0, fetches |-> 0]
    ELSE LET res == getChatCompletion(resp) IN
         IF res.error \in {"RateLimitError", "NetworkError"}
         THEN [error |-> res.error, flashcards |-> 0, fetches |-> 2]
         ELSE IF res.error # "" THEN [error |-> res.error, flashcards |-> 0, fetches |-> 1]
         ELSE IF res.flashcards = 0
         THEN [error |-> "NoFlashcards", flashcards |-> 0, fetches |-> 1]
         ELSE [error |-> "", flashcards |-> res.flashcards, fetches |-> 1]

\* the try block of step 2: the error caught and the flashcards obtained
Completion(env, resp) ==
    IF Constructor(env) # ""
    THEN [error |-> Constructor(env), flashcards |-> 0, fetches |-> 0]
    ELSE LET res == getChatCompletion(resp) IN
         IF res.error # "" THEN [error |-> res.error, flashcards |-> 0, fetches |-> 1]
         ELSE IF res.flashcards = 0
         THEN [error |-> "NoFlashcards", flashcards |-> 0, fetches |-> 1]
         ELSE [error |-> "", flashcards |-> res.flashcards, fetches |-> 1]

SuggestCompletion(r) ==
    /\ reqs[r].pc = "s_ai"
    /\ \E env \in Environments, resp \in ProviderResponses :
          /\ (env # GoodEnv => resp = GoodResponse(1))
          /\ LET got == Completion(env, resp)
                 req == [reqs[r] EXCEPT !.env = Some(env),
                                        !.provider = IF got.fetches = 0 THEN Null ELSE Some(resp),
                                        !.fetches = @ + got.fetches] IN
             reqs' = [reqs EXCEPT ![r] =
                 IF got.error # ""
                 THEN SuggestRoute(req, "GenerationError", GenerationErrorMessage(got.error))
                 ELSE [req EXCEPT !.pc = "s_insert", !.suggested = got.flashcards]]
    /\ UNCHANGED <<rowLevelSecurity, flashcards, generations, generation_errors, started, studyVars, modalVars, shuffleVars>>

InsertOutcomes == {"ok", "error", "throw"}

\* mutant: the row is inserted with the suggestions counted as accepted
SuggestInsertGenerationAccepted(r) ==
    /\ reqs[r].pc = "s_insert"
    /\ \E outcome \in InsertOutcomes :
          LET req == reqs[r] IN
          IF outcome = "ok"
          THEN /\ generations' = Append(generations,
                      [user_id |-> req.userId, deck_id |-> req.deckId,
                       generated_cards_count |-> req.suggested,
                       accepted_cards_count |-> Some(req.suggested)])
               /\ reqs' = [reqs EXCEPT ![r] =
                      Respond([req EXCEPT !.newGenerationId = Some(Len(generations) + 1)],
                              200, "", "",
                              Some([generationId |-> Len(generations) + 1,
                                    suggestedFlashcards |-> req.suggested]))]
          ELSE /\ generations' = generations
               /\ reqs' = [reqs EXCEPT ![r].pc =
                      IF outcome = "error" THEN "s_log1" ELSE "s_log2"]
    /\ UNCHANGED <<rowLevelSecurity, flashcards, generation_errors, started, studyVars, modalVars, shuffleVars>>

\* step 3: insert the generations row
SuggestInsertGeneration(r) ==
    /\ reqs[r].pc = "s_insert"
    /\ \E outcome \in InsertOutcomes :
          LET req == reqs[r] IN
          IF outcome = "ok"
          THEN /\ generations' = Append(generations,
                      [user_id |-> req.userId, deck_id |-> req.deckId,
                       generated_cards_count |-> req.suggested,
                       accepted_cards_count |-> Null])
               /\ reqs' = [reqs EXCEPT ![r] =
                      Respond([req EXCEPT !.newGenerationId = Some(Len(generations) + 1)],
                              200, "", "",
                              Some([generationId |-> Len(generations) + 1,
                                    suggestedFlashcards |-> req.suggested]))]
          ELSE /\ generations' = generations
               /\ reqs' = [reqs EXCEPT ![r].pc =
                      IF outcome = "error" THEN "s_log1" ELSE "s_log2"]
    /\ UNCHANGED <<rowLevelSecurity, flashcards, generation_errors, started, studyVars, modalVars, shuffleVars>>

\* mutant: no outer catch, an insert into generation_errors that throws
\* escapes generateFlashcards as it is
SuggestLogInsertFailureUnguarded(r) ==
    /\ reqs[r].pc = "s_log1"
    /\ \E outcome \in InsertOutcomes :
          LET req == [reqs[r] EXCEPT !.logAttempts = @ + 1] IN
          /\ generation_errors' =
                IF outcome = "ok"
                THEN Append(generation_errors,
                        [user_id |-> req.userId, deck_id |-> req.deckId,
                         error_message |-> "Failed to insert generation record"])
                ELSE generation_errors
          /\ reqs' = [reqs EXCEPT ![r] =
                IF outcome = "throw"
                THEN SuggestRoute(req, "Error", "insert into generation_errors threw")
                ELSE SuggestRoute(req, "GenerationError", "Failed to log generation event")]
    /\ UNCHANGED <<rowLevelSecurity, flashcards, generations, started, studyVars, modalVars, shuffleVars>>

\* the insert into generation_errors after insertError, then
\* throw new GenerationError("Failed to log generation event")
SuggestLogInsertFailure(r) ==
    /\ reqs[r].pc = "s_log1"
    /\ \E outcome \in InsertOutcomes :
          LET req == [reqs[r] EXCEPT !.logAttempts = @ + 1] IN
          /\ generation_errors' =
                IF outcome = "ok"
                THEN Append(generation_errors,
                        [user_id |-> req.userId, deck_id |-> req.deckId,
                         error_message |-> "Failed to insert generation record"])
                ELSE generation_errors
          /\ reqs' = [reqs EXCEPT ![r] =
                IF outcome = "throw"
                THEN [req EXCEPT !.pc = "s_log2"]
                ELSE SuggestRoute(req, "GenerationError", "Failed to log generation event")]
    /\ UNCHANGED <<rowLevelSecurity, flashcards, generations, started, studyVars, modalVars, shuffleVars>>

\* the outer catch of step 3: log the unexpected error, then
\* throw new GenerationError("An unexpected error occurred during generation")
SuggestLogUnexpected(r) ==
    /\ reqs[r].pc = "s_log2"
    /\ \E outcome \in InsertOutcomes :
          LET req == [reqs[r] EXCEPT !.logAttempts = @ + 1] IN
          /\ generation_errors' =
                IF outcome = "ok"
                THEN Append(generation_errors,
                        [user_id |-> req.userId, deck_id |-> req.deckId,
                         error_message |-> "Unknown error during generation"])
                ELSE generation_errors
          /\ reqs' = [reqs EXCEPT ![r] =
                SuggestRoute(req, "GenerationError",
                             "An unexpected error occurred during generation")]
    /\ UNCHANGED <<rowLevelSecurity, flashcards, generations, started, studyVars, modalVars, shuffleVars>>

\* ------------------------------------------------------------------------
\* FlashcardService.bulkCreateFlashcards and POST .../flashcards/bulk
\* ------------------------------------------------------------------------
\* bulkCreateFlashcardsSchema.safeParse(requestBody).success, by list length
bulkCreateFlashcardsSchema(n) ==
    n >= MinBulkFlashcards /\ n <= MaxBulkFlashcards

\* the curated list of n cards: card i is the i-th card of the list
CuratedList(n) == [i \in 1..n |-> i]

\* the catch block of the route
BulkRoute(req, error, message) ==
    IF error = "DeckNotFoundError" THEN Respond(req, 404, error, message, ErrorBody(message))
    ELSE IF error = "GenerationAlreadyProcessedError"
    THEN Respond(req, 409, error, message, ErrorBody(message))
    ELSE Respond(req, 500, error, message, ErrorBody(InternalServerError))

\* accepted_cards_count of generation id, Null when there is no such row
AcceptedOf(id) ==
    IF id \in DOMAIN generations THEN generations[id].accepted_cards_count ELSE Null

StartCommit(r) ==
    /\ reqs[r].pc = "idle"
    /\ started < MaxCalls
    /\ started' = started + 1
    /\ \E userId \in Callers, deckId \in DeckIds,
          generationId \in 1..(Len(generations) + 1), n \in 0..MaxCurated :
          LET req == [IdleReq EXCEPT !.kind = "commit", !.userId = userId,
                                     !.deckId = deckId, !.generationId = generationId,
                                     !.cards = CuratedList(n),
                                     !.startCount = DeckSize(deckId),
                                     !.startAccepted = AcceptedOf(generationId)] IN
          reqs' = [reqs EXCEPT ![r] =
              IF userId = NoUser
              THEN Respond(req, 401, "", "", ErrorBody("Unauthorized. Please log in."))
              ELSE IF ~bulkCreateFlashcardsSchema(n)
              THEN Respond(req, 400, "", "", ErrorBody("Invalid request body"))
              ELSE [req EXCEPT !.pc = "b_deck"]]
    /\ UNCHANGED <<rowLevelSecurity, flashcards, generations, generation_errors, studyVars, modalVars, shuffleVars>>

\* step 1 of createFlashcard and bulkCreateFlashcards: the error thrown for
\* the result of the deck lookup, as <<class, message>>; <<"", "">> for none
verifyDeck(res) ==
    IF res.error = "PGRST116" THEN <<"DeckNotFoundError", "Deck not found or access denied">>
    ELSE IF res.error # "" THEN <<"Error", "Failed to verify deck">>
    ELSE IF res.data = Null THEN <<"DeckNotFoundError", "Deck not found or access denied">>
    ELSE <<"", "">>

BulkVerifyDeck(r) ==
    /\ reqs[r].pc = "b_deck"
    /\ \E dbOk \in BOOLEAN :
          LET req == reqs[r]
              err == verifyDeck(SelectDeck(req.userId, req.deckId, dbOk)) IN
          reqs' = [reqs EXCEPT ![r] =
              IF err[1] # "" THEN BulkRoute(req, err[1], err[2])
              ELSE [req EXCEPT !.pc = "b_count"]]
    /\ UNCHANGED <<rowLevelSecurity, flashcards, generations, generation_errors, started, studyVars, modalVars, shuffleVars>>

\* step 1b: count the flashcards of the deck
BulkCountFlashcards(r) ==
    /\ reqs[r].pc = "b_count"
    /\ \E dbOk \in BOOLEAN :
          LET req == reqs[r] IN
          reqs' = [reqs EXCEPT ![r] =
              IF ~dbOk THEN BulkRoute(req, "Error", "Failed to count flashcards")
              ELSE [req EXCEPT !.pc = "b_gen",
                               !.flashcardCount = CountFlashcards(req.userId, req.deckId)]]
    /\ UNCHANGED <<rowLevelSecurity, flashcards, generations, generation_errors, started, studyVars, modalVars, shuffleVars>>

\* .from("generations").select(...).eq("id", generationId)
\*   .eq("user_id", this.userId).eq("deck_id", deckId).single()
SelectGeneration(userId, deckId, generationId, dbOk) ==
    IF ~dbOk THEN [error |-> "DBERROR", data |-> Null]
    ELSE IF /\ generationId \in DOMAIN generations
            /\ generations[generationId].user_id = userId
            /\ generations[generationId].deck_id = deckId
    THEN [error |-> "", data |-> Some(generations[generationId])]
    ELSE [error |-> "PGRST116", data |-> Null]

\* mutant: the latch is never found set
alreadyProcessedNever(generation) == FALSE

\* generation.accepted_cards_count !== null
alreadyProcessed(generation) == generation.accepted_cards_count # Null

\* step 2: the error thrown for the result of the generation lookup
verifyGeneration(res) ==
    IF res.error = "PGRST116"
    THEN <<"Error", "Generation not found or doesn't belong to this deck">>
    ELSE IF res.error # "" THEN <<"Error", "Failed to verify generation">>
    ELSE IF res.data = Null
    THEN <<"Error", "Generation not found or doesn't belong to this deck">>
    ELSE IF alreadyProcessed(res.data[1])
    THEN <<"GenerationAlreadyProcessedError", "This generation has already been processed">>
    ELSE <<"", "">>

\* mutant: the curated list is not cut to the free slots
cardsToAddNoLimit(n, availableSlots) == n

\* Math.min(command.flashcards.length, availableSlots)
cardsToAdd(n, availableSlots) == Min(n, availableSlots)

\* mutant: the cut keeps the last cards of the list
SliceTail(array, end) ==
    SubSeq(array, Len(array) - Min(Max(end, 0), Len(array)) + 1, Len(array))

\* mutant: the curated list is inserted whole
SliceWhole(array, end) == array

\* array.slice(0, end) of JavaScript: a negative end counts from the back
Slice(array, end) ==
    LET stop == IF end < 0 THEN Max(Len(array) + end, 0) ELSE Min(end, Len(array)) IN
    SubSeq(array, 1, stop)

\* steps 2 to 4: check the generation, compute cardsToAdd and cardsSkipped
BulkCheckGeneration(r) ==
    /\ reqs[r].pc = "b_gen"
    /\ \E dbOk \in BOOLEAN :
          LET req == reqs[r]
              err == verifyGeneration(
                         SelectGeneration(req.userId, req.deckId, req.generationId, dbOk))
              currentCount == req.flashcardCount
              availableSlots == MaxFlashcardsPerDeck - currentCount
              toAdd == cardsToAdd(Len(req.cards), availableSlots)
              flashcardsToInsert == Slice(req.cards, toAdd) IN
          reqs' = [reqs EXCEPT ![r] =
              IF err[1] # "" THEN BulkRoute(req, err[1], err[2])
              ELSE [req EXCEPT !.cardsToAdd = toAdd,
                               !.cardsSkipped = Len(req.cards) - toAdd,
                               !.pc = IF Len(flashcardsToInsert) > 0
                                      THEN "b_insert" ELSE "b_mark"]]
    /\ UNCHANGED <<rowLevelSecurity, flashcards, generations, generation_errors, started, studyVars, modalVars, shuffleVars>>

\* the rows of step 4
GeneratedRows(req) ==
    LET flashcardsToInsert == Slice(req.cards, req.cardsToAdd) IN
    [i \in DOMAIN flashcardsToInsert |->
        [deck_id |-> req.deckId, front |-> flashcardsToInsert[i],
         creation_type |-> "generated", generation_id |-> Some(req.generationId)]]

\* mutant: accepted_cards_count is set together with the insert
BulkInsertFlashcardsLatchFirst(r) ==
    /\ reqs[r].pc = "b_insert"
    /\ \E dbOk \in BOOLEAN :
          LET req == reqs[r] IN
          /\ generations' = [generations EXCEPT
                 ![req.generationId].accepted_cards_count = Some(req.cardsToAdd)]
          /\ IF dbOk
             THEN /\ flashcards' = flashcards \o GeneratedRows(req)
                  /\ reqs' = [reqs EXCEPT ![r] =
                         [req EXCEPT !.pc = "b_mark", !.inserted = Len(GeneratedRows(req))]]
             ELSE /\ flashcards' = flashcards
                  /\ reqs' = [reqs EXCEPT ![r] =
                         BulkRoute(req, "Error", "Failed to insert flashcards")]
    /\ UNCHANGED <<rowLevelSecurity, generation_errors, started, studyVars, modalVars, shuffleVars>>

\* step 5: insert the flashcards in one statement
BulkInsertFlashcards(r) ==
    /\ reqs[r].pc = "b_insert"
    /\ \E dbOk \in BOOLEAN :
          LET req == reqs[r] IN
          IF dbOk
          THEN /\ flashcards' = flashcards \o GeneratedRows(req)
               /\ reqs' = [reqs EXCEPT ![r] =
                      [req EXCEPT !.pc = "b_mark", !.inserted = Len(GeneratedRows(req))]]
          ELSE /\ flashcards' = flashcards
               /\ reqs' = [reqs EXCEPT ![r] =
                      BulkRoute(req, "Error", "Failed to insert flashcards")]
    /\ UNCHANGED <<rowLevelSecurity, generations, generation_errors, started, studyVars, modalVars, shuffleVars>>

\* steps 6 and 7: set accepted_cards_count, return the totals
BulkMarkGeneration(r) ==
    /\ reqs[r].pc = "b_mark"
    /\ \E dbOk \in BOOLEAN :
          LET req == reqs[r] IN
          IF dbOk
          THEN /\ generations' = [generations EXCEPT
                      ![req.generationId].accepted_cards_count = Some(req.cardsToAdd)]
               /\ reqs' = [reqs EXCEPT ![r] =
                      Respond(req, 201, "", "",
                          Some([cardsAdded |-> req.cardsToAdd,
                                cardsSkipped |-> req.cardsSkipped,
                                deckTotalFlashcards |-> req.flashcardCount + req.cardsToAdd]))]
          ELSE /\ generations' = generations
               /\ reqs' = [reqs EXCEPT ![r] =
                      BulkRoute(req, "Error", "Failed to mark generation as processed")]
    /\ UNCHANGED <<rowLevelSecurity, flashcards, generation_errors, started, studyVars, modalVars, shuffleVars>>

\* ------------------------------------------------------------------------
\* FlashcardService.createFlashcard and POST .../flashcards
\* ------------------------------------------------------------------------
MaxFrontLength == 200

\* createFlashcardSchema.safeParse(requestBody).success, by length of front
createFlashcardSchema(frontLen) ==
    frontLen >= 1 /\ frontLen <= MaxFrontLength

\* the catch block of the route
CreateRoute(req, error, message) ==
    IF error = "DeckNotFoundError" THEN Respond(req, 404, error, message, ErrorBody(message))
    ELSE IF error = "DeckCardLimitExceededError"
    THEN Respond(req, 403, error, message, ErrorBody(message))
    ELSE Respond(req, 500, error, message, ErrorBody(InternalServerError))

StartCreate(r) ==
    /\ reqs[r].pc = "idle"
    /\ started < MaxCalls
    /\ started' = started + 1
    /\ \E userId \in Callers, deckId \in DeckIds, frontLen \in {0, MaxFrontLength} :
          LET req == [IdleReq EXCEPT !.kind = "create", !.userId = userId,
                                     !.deckId = deckId, !.textLen = frontLen,
                                     !.startCount = DeckSize(deckId)] IN
          reqs' = [reqs EXCEPT ![r] =
              IF userId = NoUser
              THEN Respond(req, 401, "", "", ErrorBody("Unauthorized. Please log in."))
              ELSE IF ~createFlashcardSchema(frontLen)
              THEN Respond(req, 400, "", "", ErrorBody("Invalid request body"))
              ELSE [req EXCEPT !.pc = "c_deck"]]
    /\ UNCHANGED <<rowLevelSecurity, flashcards, generations, generation_errors, studyVars, modalVars, shuffleVars>>

\* steps 1 and 2: the deck with its flashcards, then the limit
CreateVerifyDeck(r) ==
    /\ reqs[r].pc = "c_deck"
    /\ \E dbOk \in BOOLEAN :
          LET req == reqs[r]
              err == verifyDeck(SelectDeck(req.userId, req.deckId, dbOk))
              currentCount == CountFlashcards(req.userId, req.deckId) IN
          reqs' = [reqs EXCEPT ![r] =
              IF err[1] # "" THEN CreateRoute(req, err[1], err[2])
              ELSE IF currentCount >= MaxFlashcardsPerDeck
              THEN CreateRoute([req EXCEPT !.flashcardCount = currentCount],
                       "DeckCardLimitExceededError",
                       "This deck has reached the maximum limit of 100 flashcards")
              ELSE [req EXCEPT !.pc = "c_insert", !.flashcardCount = currentCount]]
    /\ UNCHANGED <<rowLevelSecurity, flashcards, generations, generation_errors, started, studyVars, modalVars, shuffleVars>>

ManualRow(deckId) ==
    [deck_id |-> deckId, front |-> 0,
     creation_type |-> "manual", generation_id |-> Null]

\* steps 3 and 4: insert the flashcard, return it
CreateInsertFlashcard(r) ==
    /\ reqs[r].pc = "c_insert"
    /\ \E dbOk \in BOOLEAN :
          LET req == reqs[r] IN
          IF dbOk
          THEN /\ flashcards' = Append(flashcards, ManualRow(req.deckId))
               /\ reqs' = [reqs EXCEPT ![r] =
                      Respond([req EXCEPT !.inserted = 1], 201, "", "",
                              Some([deckId |-> req.deckId]))]
          ELSE /\ flashcards' = flashcards
               /\ reqs' = [reqs EXCEPT ![r] =
                      CreateRoute(req, "Error", "Failed to create flashcard")]
    /\ UNCHANGED <<rowLevelSecurity, generations, generation_errors, started, studyVars, modalVars, shuffleVars>>

\* the response has been sent: the slot serves the next request
Finish(r) ==
    /\ reqs[r].pc = "done"
    /\ reqs' = [reqs EXCEPT ![r] = IdleReq]
    /\ UNCHANGED <<rowLevelSecurity, flashcards, generations, generation_errors, started, studyVars, modalVars, shuffleVars>>

\* ------------------------------------------------------------------------
\* GenerationModal
\* ------------------------------------------------------------------------
MaxFetches == 2        \* fetch calls the modal makes in one behaviour
MaxReviewCards == 2    \* most flashcards a suggest response carries to the modal
MinInputLength == 10

\* texts the textarea can hold, with inputText.trim().length of each (the
\* textarea has maxLength 5000)
Texts == {"", "short", "text one", "text two"}
TrimLength(text) ==
    CASE text = "" -> 0
      [] text = "short" -> MinInputLength - 1
      [] OTHER -> MinInputLength

initialState ==
    [step |-> "input", inputText |-> "", generationId |-> Null,
     suggestedFlashcards |-> <<>>, error |-> Null, editingIndex |-> Null]

\* array.filter((_, i) => i !== index), index 0-based
FilterOut(array, index) ==
    [k \in 1..(Len(array) - (IF index + 1 \in DOMAIN array THEN 1 ELSE 0)) |->
        IF k <= index THEN array[k] ELSE array[k + 1]]

\* the card an edit leaves at its index
EditedCard == 0

generationReducer(st, action) ==
    CASE action.type = "SET_INPUT" -> [st EXCEPT !.inputText = action.payload]
      [] action.type = "START_GENERATION" -> [st EXCEPT !.step = "loading", !.error = Null]
      [] action.type = "GENERATION_SUCCESS" ->
            [st EXCEPT !.step = "review",
                       !.generationId = Some(action.payload.generationId),
                       !.suggestedFlashcards = action.payload.flashcards]
      [] action.type = "GENERATION_ERROR" ->
            [st EXCEPT !.step = "error", !.error = Some(action.payload)]
      [] action.type = "DELETE_FLASHCARD" ->
            [st EXCEPT !.suggestedFlashcards = FilterOut(st.suggestedFlashcards, action.payload),
                       !.editingIndex = IF st.editingIndex = Some(action.payload)
                                        THEN Null ELSE st.editingIndex]
      [] action.type = "START_EDITING" -> [st EXCEPT !.editingIndex = Some(action.payload)]
      [] action.type = "UPDATE_FLASHCARD" ->
            [st EXCEPT !.suggestedFlashcards =
                           [k \in DOMAIN st.suggestedFlashcards |->
                               IF k = action.payload + 1 THEN EditedCard
                               ELSE st.suggestedFlashcards[k]],
                       !.editingIndex = Null]
      [] action.type = "CANCEL_EDITING" -> [st EXCEPT !.editingIndex = Null]
      [] action.type = "START_SAVING" -> [st EXCEPT !.step = "saving"]
      [] action.type = "RESET" -> initialState
      [] OTHER -> st

Dispatch(type) == [type |-> type]
DispatchWith(type, payload) == [type |-> type, payload |-> payload]

ModalIdle ==
    /\ state = initialState
    /\ saveError = Null
    /\ editFilled = FALSE
    /\ isOpen = FALSE
    /\ inFlight = {}
    /\ issued = 0
    /\ modalOp = "GenerationModal"
    /\ submitted = Null
    /\ failedCommit = Null

\* DeckDetailView.handleGenerate: the "Generate Flashcards" button of the page
OpenModal ==
    /\ ~isOpen
    /\ isOpen' = TRUE
    /\ modalOp' = "OpenModal"
    /\ UNCHANGED <<state, saveError, editFilled, inFlight, issued, submitted, failedCommit>>
    /\ UNCHANGED <<studyVars, serverVars, shuffleVars>>

\* handleClose: the Cancel and Close buttons, and the Dialog's onOpenChange
\* (Escape, click outside) in every step
handleClose ==
    /\ isOpen
    /\ state' = generationReducer(state, Dispatch("RESET"))
    /\ saveError' = Null
    /\ isOpen' = FALSE
    /\ failedCommit' = Null
    /\ modalOp' = "handleClose"
    /\ UNCHANGED <<editFilled, inFlight, issued, submitted>>
    /\ UNCHANGED <<studyVars, serverVars, shuffleVars>>

\* onChange of the textarea
SetInput ==
    /\ isOpen /\ state.step = "input"
    /\ \E text \in Texts \ {state.inputText} :
          state' = generationReducer(state, DispatchWith("SET_INPUT", text))
    /\ modalOp' = "SetInput"
    /\ UNCHANGED <<saveError, editFilled, isOpen, inFlight, issued, submitted, failedCommit>>
    /\ UNCHANGED <<studyVars, serverVars, shuffleVars>>

\* disabled of the "Generate Flashcards" button
GenerateDisabled(text) ==
    TrimLength(text) < MinInputLength \/ TrimLength(text) > MaxTextLength

\* the early return of handleGenerate
GenerateReturnsEarly(text) ==
    TrimLength(text) = 0 \/ TrimLength(text) > MaxTextLength

\* handleGenerate up to the fetch
handleGenerate ==
    /\ isOpen /\ state.step = "input"
    /\ ~GenerateDisabled(state.inputText)
    /\ ~GenerateReturnsEarly(state.inputText)
    /\ issued < MaxFetches
    /\ state' = generationReducer(state, Dispatch("START_GENERATION"))
    /\ issued' = issued + 1
    /\ inFlight' = inFlight \cup
          {[id |-> issued + 1, kind |-> "suggest", text |-> state.inputText,
            generationId |-> 0, flashcards |-> <<>>]}
    /\ submitted' = Some(state.inputText)
    /\ failedCommit' = Null
    /\ modalOp' = "handleGenerate"
    /\ UNCHANGED <<saveError, editFilled, isOpen>>
    /\ UNCHANGED <<studyVars, serverVars, shuffleVars>>

SuggestFailures == {"AI service error. Please try again.", "Failed to generate flashcards"}

\* handleGenerate from the fetch on: the response or the rejection of a
\* suggest request arrives
SuggestSettles ==
    /\ \E f \in inFlight :
          /\ f.kind = "suggest"
          /\ inFlight' = inFlight \ {f}
          /\ \/ \E k \in 1..MaxReviewCards :
                   /\ state' = generationReducer(state,
                          DispatchWith("GENERATION_SUCCESS",
                              [generationId |-> f.id, flashcards |-> [i \in 1..k |-> i]]))
                   /\ modalOp' = "suggest succeeded"
             \/ \E message \in SuggestFailures :
                   /\ state' = generationReducer(state,
                          DispatchWith("GENERATION_ERROR", message))
                   /\ modalOp' = "suggest failed"
    /\ UNCHANGED <<saveError, editFilled, isOpen, issued, submitted, failedCommit>>
    /\ UNCHANGED <<studyVars, serverVars, shuffleVars>>

\* the indices of the cards shown in the review step
ReviewIndices == 0..(Len(state.suggestedFlashcards) - 1)

\* the pencil button of a card
handleStartEdit ==
    /\ isOpen /\ state.step = "review" /\ state.editingIndex = Null
    /\ \E index \in ReviewIndices :
          state' = generationReducer(state, DispatchWith("START_EDITING", index))
    /\ editFilled' = TRUE
    /\ modalOp' = "handleStartEdit"
    /\ UNCHANGED <<saveError, isOpen, inFlight, issued, submitted, failedCommit>>
    /\ UNCHANGED <<studyVars, serverVars, shuffleVars>>

\* onChange of the two edit fields
SetEditFields ==
    /\ isOpen /\ state.step = "review" /\ state.editingIndex # Null
    /\ editFilled' = ~editFilled
    /\ modalOp' = "SetEditFields"
    /\ UNCHANGED <<state, saveError, isOpen, inFlight, issued, submitted, failedCommit>>
    /\ UNCHANGED <<studyVars, serverVars, shuffleVars>>

\* the "Save Changes" button, disabled while a field is blank
handleSaveEdit ==
    /\ isOpen /\ state.step = "review" /\ state.editingIndex # Null
    /\ editFilled
    /\ state' = generationReducer(state,
                    DispatchWith("UPDATE_FLASHCARD", state.editingIndex[1]))
    /\ editFilled' = FALSE
    /\ modalOp' = "handleSaveEdit"
    /\ UNCHANGED <<saveError, isOpen, inFlight, issued, submitted, failedCommit>>
    /\ UNCHANGED <<studyVars, serverVars, shuffleVars>>

\* the Cancel button of the card in edit mode
handleCancelEdit ==
    /\ isOpen /\ state.step = "review" /\ state.editingIndex # Null
    /\ state' = generationReducer(state, Dispatch("CANCEL_EDITING"))
    /\ editFilled' = FALSE
    /\ modalOp' = "handleCancelEdit"
    /\ UNCHANGED <<saveError, isOpen, inFlight, issued, submitted, failedCommit>>
    /\ UNCHANGED <<studyVars, serverVars, shuffleVars>>

\* the trash button of a card, disabled while a card is edited
handleDelete ==
    /\ isOpen /\ state.step = "review" /\ state.editingIndex = Null
    /\ \E index \in ReviewIndices :
          state' = generationReducer(state, DispatchWith("DELETE_FLASHCARD", index))
    /\ modalOp' = "handleDelete"
    /\ UNCHANGED <<saveError, editFilled, isOpen, inFlight, issued, submitted, failedCommit>>
    /\ UNCHANGED <<studyVars, serverVars, shuffleVars>>

\* handleSave up to the fetch: the "Add n Cards" button
handleSave ==
    /\ isOpen /\ state.step = "review"
    /\ Len(state.suggestedFlashcards) # 0
    /\ state.generationId # Null
    /\ issued < MaxFetches
    /\ state' = generationReducer(state, Dispatch("START_SAVING"))
    /\ saveError' = Null
    /\ issued' = issued + 1
    /\ inFlight' = inFlight \cup
          {[id |-> issued + 1, kind |-> "commit", text |-> "",
            generationId |-> state.generationId[1],
            flashcards |-> state.suggestedFlashcards]}
    /\ failedCommit' = Null
    /\ modalOp' = "handleSave"
    /\ UNCHANGED <<editFilled, isOpen, submitted>>
    /\ UNCHANGED <<studyVars, serverVars, shuffleVars>>

CommitFailures == {"This generation has already been processed", "Failed to save flashcards"}

\* handleSave from the fetch on: the response or the rejection of a commit
\* request arrives; a success runs handleClose() and onComplete()
CommitSettles ==
    /\ \E f \in inFlight :
          /\ f.kind = "commit"
          /\ inFlight' = inFlight \ {f}
          /\ \/ /\ state' = generationReducer(state, Dispatch("RESET"))
                /\ saveError' = Null
                /\ isOpen' = FALSE
                /\ failedCommit' = Null
                /\ modalOp' = "commit succeeded"
             \/ \E message \in CommitFailures :
                   /\ saveError' = Some(message)
                   /\ state' = generationReducer(state,
                          DispatchWith("GENERATION_ERROR", message))
                   /\ isOpen' = isOpen
                   /\ failedCommit' =
                         IF state.step = "saving" /\ state.generationId = Some(f.generationId)
                         THEN Some([generationId |-> f.generationId,
                                    flashcards |-> f.flashcards])
                         ELSE failedCommit
                   /\ modalOp' = "commit failed"
    /\ UNCHANGED <<editFilled, issued, submitted>>
    /\ UNCHANGED <<studyVars, serverVars, shuffleVars>>

\* the "Try Again" button of the error step
handleRetry ==
    /\ isOpen /\ state.step = "error"
    /\ state' = generationReducer(state, Dispatch("RESET"))
    /\ saveError' = Null
    /\ modalOp' = "handleRetry"
    /\ UNCHANGED <<editFilled, isOpen, inFlight, issued, submitted, failedCommit>>
    /\ UNCHANGED <<studyVars, serverVars, shuffleVars>>

\* ------------------------------------------------------------------------
\* Specifications
\* ------------------------------------------------------------------------
MaxOver == 1

NoRequests ==
    /\ reqs = [r \in Reqs |-> IdleReq]
    /\ started = 0

StudyInit ==
    /\ useStudySessionInit
    /\ rowLevelSecurity = TRUE
    /\ flashcards = <<>>
    /\ generations = <<>>
    /\ generation_errors = <<>>
    /\ NoRequests
    /\ ModalIdle
    /\ ShuffleIdle

StudyIdle ==
    /\ session = [shuffledFlashcards |-> <<>>, currentIndex |-> 0,
                  isFlipped |-> FALSE, isComplete |-> FALSE, totalCards |-> 0]
    /\ flashcardsRef = <<>>
    /\ initialFlashcards = <<>>
    /\ nextsFromFresh = 0
    /\ lastOp = [op |-> "useStudySession", wasComplete |-> FALSE]

SuggestInit ==
    /\ StudyIdle
    /\ rowLevelSecurity \in BOOLEAN
    /\ flashcards = <<>>
    /\ generations = <<>>
    /\ generation_errors = <<>>
    /\ NoRequests
    /\ ModalIdle
    /\ ShuffleIdle

\* a deck d1 of u1 that is empty or holds between MaxFlashcardsPerDeck -
\* MaxFree and MaxFlashcardsPerDeck manual flashcards, and one unprocessed
\* generation per user: 1 of u1 on d1, 2 of u2 on d2
CommitInit ==
    /\ StudyIdle
    /\ rowLevelSecurity \in BOOLEAN
    /\ \E free \in (0..MaxFree) \cup {MaxFlashcardsPerDeck} :
          flashcards = [i \in 1..(MaxFlashcardsPerDeck - free) |-> ManualRow("d1")]
    /\ generations =
          <<[user_id |-> "u1", deck_id |-> "d1",
             generated_cards_count |-> MaxSuggested, accepted_cards_count |-> Null],
            [user_id |-> "u2", deck_id |-> "d2",
             generated_cards_count |-> MaxSuggested, accepted_cards_count |-> Null]>>
    /\ generation_errors = <<>>
    /\ NoRequests
    /\ ModalIdle
    /\ ShuffleIdle

CommitNext ==
    \E r \in Reqs :
        \/ StartCommit(r)
        \/ BulkVerifyDeck(r)
        \/ BulkCountFlashcards(r)
        \/ BulkCheckGeneration(r)
        \/ BulkInsertFlashcards(r)
        \/ BulkMarkGeneration(r)
        \/ StartCreate(r)
        \/ CreateVerifyDeck(r)
        \/ CreateInsertFlashcard(r)
        \/ Finish(r)

\* requests on the flashcards of a deck, in any interleaving
CommitSpec == CommitInit /\ [][CommitNext]_vars

\* no request is in flight or waiting to be answered
Quiet == \A q \in Reqs : reqs[q].pc = "idle"

SeqStartCommit(r) == Quiet /\ StartCommit(r)
SeqStartCreate(r) == Quiet /\ StartCreate(r)

CommitSeqNext ==
    \E r \in Reqs :
        \/ SeqStartCommit(r)
        \/ BulkVerifyDeck(r)
        \/ BulkCountFlashcards(r)
        \/ BulkCheckGeneration(r)
        \/ BulkInsertFlashcards(r)
        \/ BulkMarkGeneration(r)
        \/ SeqStartCreate(r)
        \/ CreateVerifyDeck(r)
        \/ CreateInsertFlashcard(r)
        \/ Finish(r)

\* the same requests, one after the other
CommitSeqSpec == CommitInit /\ [][CommitSeqNext]_vars

\* every request that was started has been answered
Settled == \A q \in Reqs : reqs[q].pc \in {"idle", "done"}

ApiStartSuggest(r) == Settled /\ StartSuggest(r)
ApiStartCommit(r) == Settled /\ StartCommit(r)

ApiNext ==
    \E r \in Reqs :
        \/ ApiStartSuggest(r)
        \/ SuggestVerifyDeck(r)
        \/ SuggestCompletion(r)
        \/ SuggestInsertGeneration(r)
        \/ SuggestLogInsertFailure(r)
        \/ SuggestLogUnexpected(r)
        \/ ApiStartCommit(r)
        \/ BulkVerifyDeck(r)
        \/ BulkCountFlashcards(r)
        \/ BulkCheckGeneration(r)
        \/ BulkInsertFlashcards(r)
        \/ BulkMarkGeneration(r)
        \/ Finish(r)

\* the empty deck d1 of u1 and the two unprocessed generations of CommitInit
ApiInit ==
    /\ StudyIdle
    /\ rowLevelSecurity = TRUE
    /\ flashcards = <<>>
    /\ generations =
          <<[user_id |-> "u1", deck_id |-> "d1",
             generated_cards_count |-> MaxSuggested, accepted_cards_count |-> Null],
            [user_id |-> "u2", deck_id |-> "d2",
             generated_cards_count |-> MaxSuggested, accepted_cards_count |-> Null]>>
    /\ generation_errors = <<>>
    /\ NoRequests
    /\ ModalIdle
    /\ ShuffleIdle

\* suggest and commit requests, each started after the one before was answered
ApiSpec == ApiInit /\ [][ApiNext]_vars

\* the deck d1 of u1 after concurrent inserts have taken it past the limit
\* (the count-then-insert race of createFlashcard and bulkCreateFlashcards),
\* and the two unprocessed generations of CommitInit
OverfullInit ==
    /\ StudyIdle
    /\ rowLevelSecurity = TRUE
    /\ \E over \in 1..MaxOver :
          flashcards = [i \in 1..(MaxFlashcardsPerDeck + over) |-> ManualRow("d1")]
    /\ generations =
          <<[user_id |-> "u1", deck_id |-> "d1",
             generated_cards_count |-> MaxSuggested, accepted_cards_count |-> Null],
            [user_id |-> "u2", deck_id |-> "d2",
             generated_cards_count |-> MaxSuggested, accepted_cards_count |-> Null]>>
    /\ generation_errors = <<>>
    /\ NoRequests
    /\ ModalIdle
    /\ ShuffleIdle

OverfullNext ==
    \E r \in Reqs :
        \/ SeqStartCommit(r)
        \/ BulkVerifyDeck(r)
        \/ BulkCountFlashcards(r)
        \/ BulkCheckGeneration(r)
        \/ BulkInsertFlashcards(r)
        \/ BulkMarkGeneration(r)
        \/ Finish(r)

\* commits, one after the other, on a deck that holds more than the limit
OverfullSpec == OverfullInit /\ [][OverfullNext]_vars

SuggestNext ==
    \E r \in Reqs :
        \/ StartSuggest(r)
        \/ SuggestVerifyDeck(r)
        \/ SuggestCompletion(r)
        \/ SuggestInsertGeneration(r)
        \/ SuggestLogInsertFailure(r)
        \/ SuggestLogUnexpected(r)
        \/ Finish(r)

SuggestSpec == SuggestInit /\ [][SuggestNext]_vars

ModalInit ==
    /\ StudyIdle
    /\ rowLevelSecurity = TRUE
    /\ flashcards = <<>>
    /\ generations = <<>>
    /\ generation_errors = <<>>
    /\ reqs = [r \in Reqs |-> IdleReq]
    /\ started = 0
    /\ ModalIdle
    /\ ShuffleIdle

ModalNext ==
    \/ OpenModal
    \/ handleClose
    \/ SetInput
    \/ handleGenerate
    \/ SuggestSettles
    \/ handleStartEdit
    \/ SetEditFields
    \/ handleSaveEdit
    \/ handleCancelEdit
    \/ handleDelete
    \/ handleSave
    \/ CommitSettles
    \/ handleRetry

\* the GenerationModal of one deck page, its user and its two endpoints
ModalSpec == ModalInit /\ [][ModalNext]_vars

ShuffleInit ==
    /\ StudyIdle
    /\ rowLevelSecurity = TRUE
    /\ flashcards = <<>>
    /\ generations = <<>>
    /\ generation_errors = <<>>
    /\ NoRequests
    /\ ModalIdle
    /\ ShuffleIdle

ShuffleNext ==
    \/ shuffleArrayCall
    \/ shuffleArrayStep
    \/ shuffleArrayReturn

\* calls of shuffleArray on arrays of distinct cards
ShuffleSpec == ShuffleInit /\ [][ShuffleNext]_vars

StudyNext ==
    \/ Rerender
    \/ goToNext
    \/ goToPrevious
    \/ flipCard
    \/ restartSession

StudySpec == StudyInit /\ [][StudyNext]_vars

\* ------------------------------------------------------------------------
\* Study session properties
\* ------------------------------------------------------------------------

\* C3 (as stated): in every reachable state of a study session, for any
\* input list including the empty one, isComplete = false implies
\* 0 <= currentIndex < totalCards.
C3_IndexInRangeWhileActive ==
    ~session.isComplete =>
        (0 <= session.currentIndex /\ session.currentIndex < session.totalCards)

\* C3 (amended): while isComplete is false, a session over a non-empty list
\* has 0 <= currentIndex < totalCards; a session over the empty list has
\* currentIndex = 0 = totalCards and no current card.
C3_IndexInRangeNonEmpty ==
    ~session.isComplete =>
        /\ session.totalCards >= 1 =>
              /\ 0 <= session.currentIndex
              /\ session.currentIndex < session.totalCards
              /\ currentCard # Undefined
        /\ session.totalCards = 0 =>
              /\ session.currentIndex = 0
              /\ currentCard = Undefined

\* C3 witness: an active session standing on the last card of a list of at
\* least two cards, reached by goToNext.
C3_Witness ==
    /\ ~session.isComplete
    /\ session.totalCards >= 2
    /\ session.currentIndex = session.totalCards - 1
    /\ nextsFromFresh = session.totalCards - 1

\* C4: after k calls of goToNext() from a fresh session over totalCards >= 1
\* cards, isComplete is true exactly when k >= totalCards: the call number
\* totalCards completes the session and no earlier call does (for one card,
\* the first call).
C4_CompleteExactlyOnLastNext ==
    (nextsFromFresh >= 0 /\ session.totalCards >= 1) =>
        (session.isComplete <=> nextsFromFresh >= session.totalCards)

\* C4 witness: the longest list, completed by exactly totalCards calls.
C4_Witness ==
    /\ session.totalCards = MaxListLen
    /\ nextsFromFresh = session.totalCards
    /\ session.isComplete

\* ------------------------------------------------------------------------
\* Suggest phase properties
\* ------------------------------------------------------------------------
\* a suggest request that passed authentication and body validation
InService(req) ==
    /\ req.kind = "suggest"
    /\ req.pc # "idle"
    /\ ~(req.pc = "done" /\ req.status \in {400, 401})

NotOwned(req) ==
    req.deckId \notin DOMAIN decks \/ decks[req.deckId] # req.userId

\* C7: a suggest on a deck that does not exist or is not the caller's ends,
\* as soon as the deck has been looked up, with DeckNotFoundError and HTTP
\* 404; it never calls the completion service and never inserts a
\* generations row (no row pairs a deck with a user who does not own it).
C7_SuggestOnForeignDeckIs404 ==
    /\ \A r \in Reqs :
          (InService(reqs[r]) /\ NotOwned(reqs[r]) /\ reqs[r].pc # "s_deck") =>
              /\ reqs[r].pc = "done"
              /\ reqs[r].error = "DeckNotFoundError"
              /\ reqs[r].status = 404
              /\ reqs[r].fetches = 0
              /\ reqs[r].newGenerationId = Null
    /\ \A g \in DOMAIN generations :
          /\ generations[g].deck_id \in DOMAIN decks
          /\ decks[generations[g].deck_id] = generations[g].user_id

\* C7 witness: the lookup returned another user's deck (the client is not
\* bound by row level security) and the request was answered 404.
C7_Witness ==
    \E r \in Reqs :
        /\ InService(reqs[r]) /\ reqs[r].pc = "done"
        /\ reqs[r].deckId = "d2"
        /\ ~rowLevelSecurity
        /\ reqs[r].status = 404

Outcome(req) == <<req.error, req.message, req.status, req.body>>

\* C8: for one caller, the outcome of suggest (error type, message, HTTP
\* status and body) on a deck owned by another user equals the outcome on a
\* deck that does not exist.
C8_ForeignDeckLooksNonexistent ==
    \A r1, r2 \in Reqs :
        (/\ InService(reqs[r1]) /\ reqs[r1].pc = "done"
         /\ InService(reqs[r2]) /\ reqs[r2].pc = "done"
         /\ reqs[r1].userId = reqs[r2].userId
         /\ reqs[r1].deckId \in DOMAIN decks /\ decks[reqs[r1].deckId] # reqs[r1].userId
         /\ reqs[r2].deckId \notin DOMAIN decks)
        => Outcome(reqs[r1]) = Outcome(reqs[r2])

NetworkMessage ==
    "Network error connecting to AI service. Please check your connection and try again."

\* C9: when the fetch of the completion call throws (transport failure or
\* timeout), suggest fails with the network GenerationError (HTTP 500) and
\* has inserted no generations row; a suggest that holds a generation id got
\* a well-formed completion, and a step that ends a suggest in failure
\* leaves the generations table as it was.
C9_FailedCompletionLeavesNoGeneration ==
    /\ [](\A r \in Reqs :
            /\ (/\ InService(reqs[r])
                /\ reqs[r].provider # Null
                /\ reqs[r].provider[1].transport = "throw")
               => /\ reqs[r].pc = "done"
                  /\ reqs[r].error = "GenerationError"
                  /\ reqs[r].message = NetworkMessage
                  /\ reqs[r].status = 500
                  /\ reqs[r].newGenerationId = Null
            /\ (InService(reqs[r]) /\ reqs[r].newGenerationId # Null)
               => /\ reqs[r].provider # Null
                  /\ reqs[r].provider[1].transport = "ok"
                  /\ reqs[r].provider[1].status = 200
                  /\ reqs[r].provider[1].content = "json"
                  /\ reqs[r].provider[1].flashcards >= 1
                  /\ reqs[r].status = 200)
    /\ [][\A r \in Reqs :
            (reqs[r].kind = "suggest" /\ reqs[r].pc # "done"
             /\ reqs'[r].pc = "done" /\ reqs'[r].status # 200)
            => generations' = generations]_vars

\* C9 witness: a suggest whose fetch threw has been answered.
C9_Witness ==
    \E r \in Reqs :
        /\ InService(reqs[r]) /\ reqs[r].pc = "done"
        /\ reqs[r].provider # Null
        /\ reqs[r].provider[1].transport = "throw"
        /\ reqs[r].fetches = 1

\* the class of GenerationError a message belongs to
MessageClass(message) ==
    CASE message = "Service configuration error. Please contact support." -> "configuration"
      [] message = "AI service authentication failed. Please contact support." -> "authentication"
      [] message = "AI service rate limit exceeded. Please try again in a few moments." -> "rate limit"
      [] message = NetworkMessage -> "network"
      [] message = "AI returned an unexpected response format. Please try again." -> "validation"
      [] message = "AI service error. Please try again." -> "generic API error"
      [] OTHER -> "other"

Is2xx(resp) == resp.transport = "ok" /\ resp.status \in 200..299

\* the mapping table as claimed: every malformed or non-JSON provider output
\* (a body that is not JSON, no choices, an empty or non-JSON message
\* content) is a validation error
ClaimedClass(env, provider) ==
    IF env # GoodEnv THEN "configuration"
    ELSE LET resp == provider[1] IN
         IF resp.transport = "throw" THEN "network"
         ELSE IF resp.status = 401 THEN "authentication"
         ELSE IF resp.status = 429 THEN "rate limit"
         ELSE IF ~Is2xx(resp) THEN "generic API error"
         ELSE IF ~resp.bodyJson \/ resp.choices = 0 \/ resp.content # "json" THEN "validation"
         ELSE IF ~resp.shapeOk \/ resp.flashcards < MinSuggestions
                 \/ resp.flashcards > MaxSuggestions THEN "validation"
         ELSE "none"

\* the mapping table as amended: only a message content that is not JSON (or
\* fails the schema) is a validation error; a 2xx response whose body is not
\* JSON, that has no choices or whose content is empty is a generic API error
AmendedClass(env, provider) ==
    IF env # GoodEnv THEN "configuration"
    ELSE LET resp == provider[1] IN
         IF resp.transport = "throw" THEN "network"
         ELSE IF resp.status = 401 THEN "authentication"
         ELSE IF resp.status = 429 THEN "rate limit"
         ELSE IF ~Is2xx(resp) THEN "generic API error"
         ELSE IF ~resp.bodyJson \/ resp.choices = 0 \/ resp.content = "" THEN "generic API error"
         ELSE IF resp.content # "json" THEN "validation"
         ELSE IF ~resp.shapeOk \/ resp.flashcards < MinSuggestions
                 \/ resp.flashcards > MaxSuggestions THEN "validation"
         ELSE "none"

\* a suggest whose completion step has run
PastCompletion(req) ==
    InService(req) /\ req.env # Null

\* C10 (as stated): each failure of the completion call surfaces as the
\* GenerationError class of the mapping table, with every malformed or
\* non-JSON provider output mapped to validation.
C10_MappingTableAsClaimed ==
    \A r \in Reqs :
        (PastCompletion(reqs[r]) /\ ClaimedClass(reqs[r].env[1], reqs[r].provider) # "none")
        => /\ reqs[r].pc = "done"
           /\ reqs[r].error = "GenerationError"
           /\ MessageClass(reqs[r].message) = ClaimedClass(reqs[r].env[1], reqs[r].provider)

\* C10 (amended): each failure of the completion call surfaces as a
\* GenerationError (HTTP 500, the message as body) of the class: missing
\* key or site URL -> configuration; 401 -> authentication; 429 -> rate
\* limit; transport failure -> network; any other non-2xx -> generic API
\* error; message content that is not JSON or fails the schema ->
\* validation; a 2xx response with a non-JSON body, no choices or an empty
\* content -> generic API error.
C10_MappingTableAmended ==
    \A r \in Reqs :
        (PastCompletion(reqs[r]) /\ AmendedClass(reqs[r].env[1], reqs[r].provider) # "none")
        => /\ reqs[r].pc = "done"
           /\ reqs[r].error = "GenerationError"
           /\ reqs[r].status = 500
           /\ reqs[r].body = ErrorBody(reqs[r].message)
           /\ MessageClass(reqs[r].message) = AmendedClass(reqs[r].env[1], reqs[r].provider)

\* C10 witness: a completion whose content fails the schema was answered
\* with the validation error, while another request got a rate limit error.
C10_Witness ==
    \E r1, r2 \in Reqs :
        /\ PastCompletion(reqs[r1]) /\ reqs[r1].pc = "done"
        /\ reqs[r1].provider # Null /\ ~reqs[r1].provider[1].shapeOk
        /\ MessageClass(reqs[r1].message) = "validation"
        /\ PastCompletion(reqs[r2]) /\ reqs[r2].pc = "done"
        /\ reqs[r2].provider # Null /\ reqs[r2].provider[1].status = 429
        /\ MessageClass(reqs[r2].message) = "rate limit"

\* ------------------------------------------------------------------------
\* Commit phase properties
\* ------------------------------------------------------------------------
\* a bulk request that passed authentication and body validation and has
\* been answered
Answered(req, kind) ==
    /\ req.kind = kind
    /\ req.pc = "done"
    /\ req.status \notin {400, 401}

\* C1: of the commit calls that name one generationId, in any interleaving,
\* at most one succeeds; a call that does not succeed has inserted no
\* flashcards.
C1_AtMostOneCommitPerGeneration ==
    \A r1, r2 \in Reqs :
        (/\ r1 # r2
         /\ Answered(reqs[r1], "commit") /\ Answered(reqs[r2], "commit")
         /\ reqs[r1].generationId = reqs[r2].generationId
         /\ reqs[r1].status = 201)
        => /\ reqs[r2].status # 201
           /\ reqs[r2].inserted = 0

\* the datastore failed under a read of the call
ReadFailed(req) ==
    req.message \in {"Failed to verify deck", "Failed to count flashcards",
                     "Failed to verify generation"}

\* the generation named by the call is a row of the caller on the deck named
OwnGeneration(req) ==
    /\ req.generationId \in DOMAIN generations
    /\ generations[req.generationId].user_id = req.userId
    /\ generations[req.generationId].deck_id = req.deckId

\* C2: with requests served one after the other, a commit that starts when
\* acceptedCardsCount of its generation is already set does not succeed,
\* inserts no flashcards and leaves acceptedCardsCount as it was; unless a
\* datastore read fails under it, it fails with
\* GenerationAlreadyProcessedError, HTTP 409.
C2_SecondCommitRejected ==
    \A r \in Reqs :
        (Answered(reqs[r], "commit") /\ reqs[r].startAccepted # Null) =>
            /\ reqs[r].status # 201
            /\ reqs[r].inserted = 0
            /\ DeckSize(reqs[r].deckId) = reqs[r].startCount
            /\ AcceptedOf(reqs[r].generationId) = reqs[r].startAccepted
            /\ (OwnGeneration(reqs[r]) /\ ~ReadFailed(reqs[r])) =>
                  /\ reqs[r].error = "GenerationAlreadyProcessedError"
                  /\ reqs[r].status = 409

\* C2 witness: a second commit of a committed generation was answered 409.
C2_Witness ==
    \E r \in Reqs :
        /\ Answered(reqs[r], "commit")
        /\ reqs[r].startAccepted # Null
        /\ reqs[r].status = 409
        /\ started = 2

\* C5: with requests served one after the other, a successful commit of n
\* curated cards into a deck holding c flashcards returns cardsAdded =
\* min(n, 100 - c), cardsSkipped = n - cardsAdded and deckTotalFlashcards =
\* c + cardsAdded; cardsAdded rows were inserted and the deck then holds
\* deckTotalFlashcards.
C5_CommitTotals ==
    \A r \in Reqs :
        (Answered(reqs[r], "commit") /\ reqs[r].status = 201) =>
            LET c == reqs[r].startCount
                n == Len(reqs[r].cards)
                body == reqs[r].body[1] IN
            /\ body.cardsAdded = Min(n, MaxFlashcardsPerDeck - c)
            /\ body.cardsSkipped = n - body.cardsAdded
            /\ body.deckTotalFlashcards = c + body.cardsAdded
            /\ reqs[r].inserted = body.cardsAdded
            /\ DeckSize(reqs[r].deckId) = body.deckTotalFlashcards

\* C5 witness: a commit of more cards than the deck had free slots, cut to
\* those slots (one card added, the others skipped, the deck full).
C5_Witness ==
    \E r \in Reqs :
        /\ Answered(reqs[r], "commit") /\ reqs[r].status = 201
        /\ reqs[r].startCount = MaxFlashcardsPerDeck - 1
        /\ Len(reqs[r].cards) >= 2
        /\ reqs[r].body[1].cardsAdded = 1
        /\ reqs[r].body[1].cardsSkipped = Len(reqs[r].cards) - 1
        /\ reqs[r].body[1].deckTotalFlashcards = MaxFlashcardsPerDeck

\* C6: under any interleaving of createFlashcard and bulkCreateFlashcards
\* requests, a deck never holds more than 100 flashcards.
C6_DeckNeverExceedsLimit ==
    \A d \in DOMAIN decks : DeckSize(d) <= MaxFlashcardsPerDeck

\* ------------------------------------------------------------------------
\* Suggest phase properties (continued)
\* ------------------------------------------------------------------------
\* a completion payload that arrived (2xx) but is empty or malformed: a body
\* or a message content that is not JSON, no choices, no content, a shape
\* other than {flashcards: [{front, back}]}, or a list of no or too many
\* flashcards
EmptyOrMalformed(resp) ==
    /\ Is2xx(resp)
    /\ \/ ~resp.bodyJson
       \/ resp.choices = 0
       \/ resp.content # "json"
       \/ ~resp.shapeOk
       \/ resp.flashcards < MinSuggestions
       \/ resp.flashcards > MaxSuggestions

\* C11: a suggest that returns successfully (HTTP 200) returns the id of a
\* generations row and at least one suggested flashcard; a suggest whose
\* completion payload was empty or malformed ends in a GenerationError
\* (HTTP 500), never in a success.
C11_SuccessIsNonEmpty ==
    \A r \in Reqs :
        /\ (reqs[r].kind = "suggest" /\ reqs[r].pc = "done" /\ reqs[r].status = 200) =>
              /\ reqs[r].body # Null
              /\ reqs[r].body[1].generationId \in DOMAIN generations
              /\ reqs[r].body[1].suggestedFlashcards >= 1
              /\ reqs[r].newGenerationId = Some(reqs[r].body[1].generationId)
        /\ (/\ InService(reqs[r])
            /\ reqs[r].provider # Null
            /\ EmptyOrMalformed(reqs[r].provider[1])) =>
              /\ reqs[r].pc = "done"
              /\ reqs[r].error = "GenerationError"
              /\ reqs[r].status = 500
              /\ reqs[r].newGenerationId = Null

\* C11 witness: one suggest succeeded with its flashcards, another got a
\* well-formed completion holding an empty list and was answered 500.
C11_Witness ==
    \E r1, r2 \in Reqs :
        /\ reqs[r1].kind = "suggest" /\ reqs[r1].pc = "done"
        /\ reqs[r1].status = 200
        /\ reqs[r1].body[1].suggestedFlashcards = MaxSuggested
        /\ InService(reqs[r2]) /\ reqs[r2].pc = "done"
        /\ reqs[r2].provider # Null
        /\ reqs[r2].provider[1] = GoodResponse(0)
        /\ reqs[r2].error = "GenerationError"

\* ------------------------------------------------------------------------
\* Commit phase properties (continued)
\* ------------------------------------------------------------------------
\* the call reached the generation lookup and the lookup itself worked
GenerationLookedUp(req) ==
    /\ Answered(req, "commit")
    /\ req.status # 404
    /\ ~ReadFailed(req)

\* C12: a commit on an owned deck whose generationId names no generations
\* row, or a row of another deck or user, fails with
\* GenerationAlreadyProcessedError (HTTP 409) and changes no flashcards or
\* generations row.
C12_UnknownGenerationIs409 ==
    \A r \in Reqs :
        (GenerationLookedUp(reqs[r]) /\ ~OwnGeneration(reqs[r])) =>
            /\ reqs[r].error = "GenerationAlreadyProcessedError"
            /\ reqs[r].status = 409
            /\ reqs[r].inserted = 0
            /\ DeckSize(reqs[r].deckId) = reqs[r].startCount
            /\ AcceptedOf(reqs[r].generationId) = reqs[r].startAccepted

\* the datastore failed under a statement of the call
DatastoreFailed(req) ==
    \/ ReadFailed(req)
    \/ req.message \in {"Failed to insert flashcards",
                        "Failed to mark generation as processed"}

\* C13: with requests served one after the other, a commit of an
\* unprocessed generation of the caller on the caller's deck succeeds (HTTP
\* 201) whatever the deck holds, unless the datastore fails under it; on a
\* deck holding 100 flashcards it returns cardsAdded = 0 and cardsSkipped =
\* the length of the curated list, and inserts nothing.
C13_CapacityNeverFailsCommit ==
    \A r \in Reqs :
        (/\ Answered(reqs[r], "commit")
         /\ ~NotOwned(reqs[r])
         /\ OwnGeneration(reqs[r])
         /\ reqs[r].startAccepted = Null
         /\ reqs[r].startCount \in 0..MaxFlashcardsPerDeck
         /\ ~DatastoreFailed(reqs[r])) =>
            /\ reqs[r].status = 201
            /\ reqs[r].startCount = MaxFlashcardsPerDeck =>
                  /\ reqs[r].body[1].cardsAdded = 0
                  /\ reqs[r].body[1].cardsSkipped = Len(reqs[r].cards)
                  /\ reqs[r].inserted = 0
                  /\ DeckSize(reqs[r].deckId) = MaxFlashcardsPerDeck

\* C13 witness: a commit of the longest curated list on a full deck was
\* answered 201 with every card skipped.
C13_Witness ==
    \E r \in Reqs :
        /\ Answered(reqs[r], "commit") /\ reqs[r].status = 201
        /\ reqs[r].startCount = MaxFlashcardsPerDeck
        /\ Len(reqs[r].cards) = MaxCurated
        /\ reqs[r].body[1].cardsSkipped = MaxCurated
        /\ reqs[r].body[1].cardsAdded = 0

\* C14: when a commit call has returned, with success or with any failure,
\* either its flashcards are inserted and acceptedCardsCount of its
\* generation is set to their number, or no flashcard is inserted and
\* acceptedCardsCount is as it was.
C14_CommitIsAtomic ==
    \A r \in Reqs :
        Answered(reqs[r], "commit") =>
            \/ /\ reqs[r].inserted = reqs[r].cardsToAdd
               /\ DeckSize(reqs[r].deckId) = reqs[r].startCount + reqs[r].cardsToAdd
               /\ AcceptedOf(reqs[r].generationId) = Some(reqs[r].cardsToAdd)
               /\ reqs[r].startAccepted = Null
            \/ /\ reqs[r].inserted = 0
               /\ DeckSize(reqs[r].deckId) = reqs[r].startCount
               /\ AcceptedOf(reqs[r].generationId) = reqs[r].startAccepted

\* ------------------------------------------------------------------------
\* Suggest phase properties: logging
\* ------------------------------------------------------------------------
\* the completion call of the suggest succeeded and the insert of its
\* generations row did not
GenerationInsertFailed(req) ==
    /\ InService(req)
    /\ req.suggested >= 1
    /\ req.pc \in {"s_log1", "s_log2", "done"}
    /\ req.newGenerationId = Null

CompletionFailed(req) ==
    /\ PastCompletion(req)
    /\ req.pc = "done"
    /\ req.suggested = 0

\* C16: when the completion call fails inside suggest, the 500 answer is
\* returned after a generation_errors row carrying the user_id and deck_id
\* of the call and the error message has been inserted.
C16_FailedCompletionIsLogged ==
    \A r \in Reqs :
        CompletionFailed(reqs[r]) =>
            /\ reqs[r].status = 500
            /\ \E i \in DOMAIN generation_errors :
                  /\ generation_errors[i].user_id = reqs[r].userId
                  /\ generation_errors[i].deck_id = reqs[r].deckId

\* ------------------------------------------------------------------------
\* Study session properties (continued)
\* ------------------------------------------------------------------------
\* a and b hold the same card ids, each the same number of times
IsPermutation(a, b) ==
    /\ Len(a) = Len(b)
    /\ \A c \in CardIds :
          Cardinality({i \in DOMAIN a : a[i] = c}) =
          Cardinality({i \in DOMAIN b : b[i] = c})

\* the session is the one a (re)initialization over cards can produce
FreshOver(sess, cards) ==
    /\ IsPermutation(sess.shuffledFlashcards, cards)
    /\ sess.currentIndex = 0
    /\ sess.isFlipped = FALSE
    /\ sess.isComplete = FALSE
    /\ sess.totalCards = Len(cards)

\* C17: for every non-empty input list, the session built by the first
\* render holds a shuffledFlashcards that is a permutation of the input
\* card ids, of the same length, with currentIndex = 0, isFlipped = false,
\* isComplete = false and totalCards = the length of the input.
C17_InitializationShuffles ==
    (lastOp.op = "useStudySession" /\ Len(initialFlashcards) >= 1) =>
        FreshOver(session, initialFlashcards)

\* C17 witness: a first render over the longest list whose shuffle changed
\* the order of the cards.
C17_Witness ==
    /\ lastOp.op = "useStudySession"
    /\ Len(initialFlashcards) = MaxListLen
    /\ session.shuffledFlashcards # initialFlashcards
    /\ IsPermutation(session.shuffledFlashcards, initialFlashcards)

\* C18: a render that passes a list whose length or ordered id sequence
\* differs from the list held in flashcardsRef resets the session from any
\* state, complete or not: shuffledFlashcards is a shuffle of the new list,
\* currentIndex = 0, isFlipped = false, isComplete = false, totalCards =
\* the new length; a render that passes a list of the same ordered ids
\* leaves the session as it was.
C18_NewListResetsSession ==
    [][lastOp'.op \in {"reset", "rerender"} =>
          IF initialFlashcards' # flashcardsRef
          THEN /\ FreshOver(session', initialFlashcards')
               /\ flashcardsRef' = initialFlashcards'
          ELSE /\ session' = session
               /\ flashcardsRef' = flashcardsRef]_vars

\* C18 witness: a complete session was given another list of at least two
\* cards and stands on its first card again.
C18_Witness ==
    /\ lastOp = [op |-> "reset", wasComplete |-> TRUE]
    /\ Len(flashcardsRef) >= 2
    /\ FreshOver(session, flashcardsRef)

\* C19: restart() from any state, complete or not, yields isComplete =
\* false, currentIndex = 0, isFlipped = false, keeps totalCards and keeps
\* the cards of the session.
C19_RestartRewinds ==
    [][lastOp'.op = "restartSession" =>
          /\ session'.isComplete = FALSE
          /\ session'.currentIndex = 0
          /\ session'.isFlipped = FALSE
          /\ session'.totalCards = session.totalCards
          /\ IsPermutation(session'.shuffledFlashcards, session.shuffledFlashcards)]_vars

\* C19 witness: restart() was called on a complete session of at least two
\* cards.
C19_Witness ==
    /\ lastOp = [op |-> "restartSession", wasComplete |-> TRUE]
    /\ session.totalCards >= 2
    /\ ~session.isComplete
    /\ session.currentIndex = 0

C21_FlipIsInvolution ==
    /\ [](flipCardState(flipCardState(session)) = session)
    /\ [][lastOp'.op = "flipCard" =>
             session' = [session EXCEPT !.isFlipped = ~session.isFlipped]]_vars

\* C21 witness: flip() was called on a card past the first one, which now
\* shows its back.
C21_Witness ==
    /\ lastOp.op = "flipCard"
    /\ session.isFlipped
    /\ session.currentIndex >= 1

\* C22: a session over the empty list has, after any sequence of flip,
\* next, previous and restart, totalCards = 0, currentIndex = 0, no cards
\* and no current card (currentCard undefined, no StudyCard rendered); each
\* of the four operations can be called in each of its states.
C22_EmptySessionStaysEmpty ==
    flashcardsRef = <<>> =>
        /\ session.totalCards = 0
        /\ session.currentIndex = 0
        /\ session.shuffledFlashcards = <<>>
        /\ currentCard = Undefined
        /\ ~StudyCardRendered
        /\ ENABLED goToNext
        /\ ENABLED goToPrevious
        /\ ENABLED flipCard
        /\ ENABLED restartSession

\* C22 witness: previous() was called on a session over the empty list that
\* next() had completed.
C22_Witness ==
    /\ flashcardsRef = <<>>
    /\ lastOp = [op |-> "goToPrevious", wasComplete |-> TRUE]
    /\ session.totalCards = 0

\* C23: isComplete is monotonic within a session: once true it stays true
\* under next, previous and flip; it turns false only by restart() or by
\* the reset that a changed input list triggers.
C23_CompleteIsMonotonic ==
    [][(session.isComplete /\ ~session'.isComplete) =>
          lastOp'.op \in {"restartSession", "reset"}]_vars

\* C23 witness: previous() was called on a complete session, moved one card
\* back and left the session complete.
C23_Witness ==
    /\ lastOp = [op |-> "goToPrevious", wasComplete |-> TRUE]
    /\ session.isComplete
    /\ session.totalCards >= 2
    /\ session.currentIndex = session.totalCards - 2

\* ------------------------------------------------------------------------
\* GenerationModal properties
\* ------------------------------------------------------------------------
\* C24: at most one suggest or commit request of a GenerationModal is in
\* flight at any time, whatever the user does, closing and reopening the
\* modal included.
C24_OneRequestInFlight ==
    Cardinality(inFlight) <= 1

\* C25: a suggest failure puts the modal in the step 'error', and the retry
\* action then brings it back to the step 'input' with inputText equal to
\* the text that was submitted.
C25_RetryKeepsInput ==
    [][/\ modalOp' = "suggest failed" => state'.step = "error"
       /\ (state.step = "error" /\ failedCommit = Null /\ modalOp' = "handleRetry") =>
             /\ state'.step = "input"
             /\ Some(state'.inputText) = submitted]_vars

\* C26: after a commit failure the review list is kept: until the user
\* closes the modal, generates anew or commits again, generationId and
\* suggestedFlashcards are those of the failed commit, so that the same list
\* can be committed again.
C26_CommitFailureKeepsReviewList ==
    failedCommit # Null =>
        /\ state.generationId = Some(failedCommit[1].generationId)
        /\ state.suggestedFlashcards = failedCommit[1].flashcards

\* ------------------------------------------------------------------------
\* Authentication, commit rows and the generation log
\* ------------------------------------------------------------------------
\* a suggest or commit request that carries no authenticated user
Unauthenticated(req) ==
    /\ req.kind \in {"suggest", "commit"}
    /\ req.userId = NoUser

\* C27: POST /api/generations and POST /api/decks/{deckId}/flashcards/bulk
\* both answer 401 when no authenticated userId is present, before any
\* datastore read or write and before any completion call: such a request
\* never reaches a step of its service (it is answered by the step that
\* starts it), its answer is 401, it made no completion call and no insert,
\* and the step that answers it leaves the three tables as they were
C27_UnauthenticatedIs401 ==
    /\ [](\A r \in Reqs :
            Unauthenticated(reqs[r]) =>
                /\ reqs[r].pc = "done"
                /\ reqs[r].status = 401
                /\ reqs[r].fetches = 0
                /\ reqs[r].inserted = 0
                /\ reqs[r].logAttempts = 0
                /\ reqs[r].newGenerationId = Null)
    /\ [][\A r \in Reqs :
            (reqs[r].pc = "idle" /\ Unauthenticated(reqs'[r])) =>
                UNCHANGED <<flashcards, generations, generation_errors>>]_vars

\* both endpoints have answered a request without a user
C27_Witness ==
    \E r, q \in Reqs :
        /\ reqs[r].kind = "suggest" /\ reqs[r].userId = NoUser /\ reqs[r].status = 401
        /\ reqs[q].kind = "commit" /\ reqs[q].userId = NoUser /\ reqs[q].status = 401

\* the insert of step 5 failed
InsertFailed(req) ==
    /\ req.kind = "commit"
    /\ req.message = "Failed to insert flashcards"

\* C28: if the flashcards insert fails during commit, the update of
\* accepted_cards_count is never attempted: the call ends there with 500,
\* the generation is still unprocessed (accepted_cards_count null), the deck
\* holds no row of this call, and a commit of the same generation that
\* arrives now passes the check of step 2
C28_FailedInsertLeavesGenerationOpen ==
    \A r \in Reqs :
        InsertFailed(reqs[r]) =>
            LET req == reqs[r] IN
            /\ req.pc = "done"
            /\ req.status = 500
            /\ req.inserted = 0
            /\ DeckSize(req.deckId) = req.startCount
            /\ AcceptedOf(req.generationId) = Null
            /\ verifyGeneration(SelectGeneration(req.userId, req.deckId,
                                                 req.generationId, TRUE)) = <<"", "">>

\* an insert of several cards into a deck with room for them has failed
C28_Witness ==
    \E r \in Reqs :
        /\ InsertFailed(reqs[r])
        /\ reqs[r].cardsToAdd = MaxCurated

\* the last k rows of table flashcards
LastRows(k) == SubSeq(flashcards, Len(flashcards) - k + 1, Len(flashcards))

SuggestSucceeds(r) ==
    /\ reqs[r].kind = "suggest"
    /\ reqs[r].pc # "done"
    /\ reqs'[r].pc = "done"
    /\ reqs'[r].status = 200

\* the generations row of a successful suggest
LoggedGeneration(req) ==
    [user_id |-> req.userId, deck_id |-> req.deckId,
     generated_cards_count |-> req.body[1].suggestedFlashcards,
     accepted_cards_count |-> Null]

\* C30: a successful suggest creates exactly one generations row for its
\* deck and user, with accepted_cards_count null and generated_cards_count
\* the number of suggestions returned, and leaves table flashcards as it
\* was: the step that answers 200 appends that row and nothing else, the
\* row is the one the answer names, and no other step of a suggest changes
\* table generations or table flashcards
C30_SuggestLogsOneGeneration ==
    /\ [](\A r \in Reqs :
            (reqs[r].kind = "suggest" /\ reqs[r].status = 200) =>
                /\ reqs[r].body[1].generationId \in DOMAIN generations
                /\ generations[reqs[r].body[1].generationId] = LoggedGeneration(reqs[r])
                /\ reqs[r].body[1].suggestedFlashcards = reqs[r].suggested)
    /\ [][/\ \A r \in Reqs :
               SuggestSucceeds(r) =>
                   generations' = Append(generations, LoggedGeneration(reqs'[r]))
          /\ (generations' # generations) => \E r \in Reqs : SuggestSucceeds(r)
          /\ flashcards' = flashcards]_vars

\* a suggest that returned several suggestions has been answered 200
C30_Witness ==
    \E r \in Reqs :
        /\ reqs[r].kind = "suggest"
        /\ reqs[r].status = 200
        /\ reqs[r].body[1].suggestedFlashcards = MaxSuggested
        /\ Len(generations) = 1

\* ------------------------------------------------------------------------
\* Study session properties (index, order, completion)
\* ------------------------------------------------------------------------
\* C31: every next() sets isFlipped = false; the completing next()
\* (currentIndex + 1 >= totalCards) leaves currentIndex as it is, so that
\* currentIndex stays below totalCards in every state of a non-empty
\* session, complete or not, also when next() is repeated after completion
C31_NextNeverOverflows ==
    /\ [](session.totalCards >= 1 =>
            /\ 0 <= session.currentIndex
            /\ session.currentIndex < session.totalCards)
    /\ [][lastOp'.op = "goToNext" =>
            /\ session'.isFlipped = FALSE
            /\ IF session.currentIndex + 1 >= session.totalCards
               THEN /\ session'.currentIndex = session.currentIndex
                    /\ session'.isComplete
               ELSE session'.currentIndex = session.currentIndex + 1]_vars

\* next() was called again on a complete session of several cards
C31_Witness ==
    /\ lastOp = [op |-> "goToNext", wasComplete |-> TRUE]
    /\ session.totalCards >= 2
    /\ session.currentIndex = session.totalCards - 1
    /\ session.isComplete

\* C32: in every reachable session state shuffledFlashcards is a
\* permutation of the list accepted last (the one held in flashcardsRef)
\* and totalCards is its length; restart() reorders the cards of the
\* session without adding, dropping or duplicating one
C32_OrderIsPermutationOfInput ==
    /\ [](/\ IsPermutation(session.shuffledFlashcards, flashcardsRef)
          /\ session.totalCards = Len(flashcardsRef))
    /\ [][lastOp'.op = "restartSession" =>
            /\ IsPermutation(session'.shuffledFlashcards, session.shuffledFlashcards)
            /\ session'.totalCards = session.totalCards
            /\ flashcardsRef' = flashcardsRef]_vars

\* a restart has put two different cards in the order opposite to the input
C32_Witness ==
    /\ lastOp.op = "restartSession"
    /\ Len(flashcardsRef) >= 2
    /\ flashcardsRef[1] # flashcardsRef[2]
    /\ session.shuffledFlashcards # flashcardsRef

\* the sequences of values of j one call can draw, for i, i - 1, ..., 1
RECURSIVE ChoiceSequences(_)
ChoiceSequences(i) ==
    IF i > 0
    THEN {<<j>> \o rest : j \in RandomIndex(i), rest \in ChoiceSequences(i - 1)}
    ELSE {<<>>}

\* the array the loop ends with when it draws the values js from index i on
RECURSIVE shuffleWith(_, _, _)
shuffleWith(arr, i, js) ==
    IF i > 0
    THEN shuffleWith(Swap(arr, i, Head(js)), i - 1, Tail(js))
    ELSE arr

\* the orders of the distinct cards of array
PermutationsOf(array) ==
    IF array = <<>> THEN {<<>>}
    ELSE {p \in [DOMAIN array -> {array[k] : k \in DOMAIN array}] :
             \A k \in DOMAIN array : \E m \in DOMAIN array : p[m] = array[k]}

\* C33: shuffleArray is an unbiased Fisher-Yates shuffle: for an array of n
\* distinct cards, with j at step i drawn from 0..i, every sequence of
\* draws gives a permutation of the array and every one of the n!
\* permutations is given by exactly one sequence of draws; the array that
\* was passed is not changed
C33_ShuffleIsBijection ==
    shuffleRun.pc = "returned" =>
        LET given == shuffleRun.given
            last == Len(given) - 1
            draws == ChoiceSequences(last) IN
        /\ shuffleRun.array = given
        /\ shuffleRun.js \in draws
        /\ shuffleRun.shuffled = shuffleWith(given, last, shuffleRun.js)
        /\ \A c \in draws : shuffleWith(given, last, c) \in PermutationsOf(given)
        /\ \A p \in PermutationsOf(given) :
              Cardinality({c \in draws : shuffleWith(given, last, c) = p}) = 1
        /\ shuffleArray(given) = PermutationsOf(given)

\* a call on the longest array has returned it in another order
C33_Witness ==
    /\ shuffleRun.pc = "returned"
    /\ Len(shuffleRun.given) = MaxShuffleLen
    /\ shuffleRun.shuffled # shuffleRun.given
    /\ shuffleRun.array = shuffleRun.given

\* ------------------------------------------------------------------------
\* Completion calls
\* ------------------------------------------------------------------------
\* C34: one suggest invocation calls the completion service at most once,
\* whatever the outcome, rate-limit and network failures included: a
\* request has made no call before step 2 and at most one after it, and
\* only the step 2 of a request adds to the calls of that request, so that
\* a further call needs a new request
C34_AtMostOneCompletionCall ==
    /\ [](\A r \in Reqs :
            /\ reqs[r].fetches <= 1
            /\ reqs[r].pc \in {"idle", "s_deck", "s_ai"} => reqs[r].fetches = 0)
    /\ [][\A r \in Reqs :
            reqs'[r].fetches > reqs[r].fetches =>
                /\ reqs[r].pc = "s_ai"
                /\ reqs'[r].pc # "s_ai"
                /\ reqs'[r].fetches = 1]_vars

\* a request was answered after the provider throttled its only call
C34_Witness ==
    \E r \in Reqs :
        /\ reqs[r].pc = "done"
        /\ reqs[r].provider # Null
        /\ reqs[r].provider[1].status = 429
        /\ reqs[r].fetches = 1
        /\ reqs[r].message = GenerationErrorMessage("RateLimitError")

\* ------------------------------------------------------------------------
\* Study session properties (the complete session)
\* ------------------------------------------------------------------------
\* C35: while isComplete is true, next(), previous() and flip(), which the
\* keydown handler of StudyView still calls, leave currentIndex and
\* isFlipped as they are; only restart() or a re-initialization changes the
\* state of a complete session
C35_CompleteSessionIsFrozen ==
    [][(session.isComplete /\ lastOp'.op \in {"goToNext", "goToPrevious", "flipCard"}) =>
          /\ session'.currentIndex = session.currentIndex
          /\ session'.isFlipped = session.isFlipped]_vars

\* ------------------------------------------------------------------------
\* Commit counts
\* ------------------------------------------------------------------------
\* C36: for every commit that succeeds, the number of flashcards rows
\* inserted equals the cardsAdded returned, 0 <= cardsAdded <= length of
\* the curated list, cardsAdded + cardsSkipped = length of the curated
\* list, and the accepted_cards_count stored is not negative, also when
\* the deck already holds more than 100 flashcards
C36_CommitCountsAreConsistent ==
    \A r \in Reqs :
        (reqs[r].kind = "commit" /\ reqs[r].status = 201) =>
            LET req == reqs[r]
                result == req.body[1] IN
            /\ req.inserted = result.cardsAdded
            /\ 0 <= result.cardsAdded
            /\ result.cardsAdded <= Len(req.cards)
            /\ result.cardsAdded + result.cardsSkipped = Len(req.cards)
            /\ AcceptedOf(req.generationId) # Null
            /\ AcceptedOf(req.generationId)[1] >= 0

\* ------------------------------------------------------------------------
\* GenerationModal properties (editing, late responses)
\* ------------------------------------------------------------------------
\* C37: in every reachable state of the GenerationModal, editingIndex is
\* non-null only while step = "review" (it is null in the input, loading,
\* saving and error steps) and, when non-null, is an index of
\* suggestedFlashcards
C37_EditingOnlyInReview ==
    state.editingIndex # Null =>
        /\ state.step = "review"
        /\ state.editingIndex[1] \in ReviewIndices

\* the suggest request f is out of date: the modal has left the loading
\* step of f (it was closed), or a later suggest has been issued
Superseded(f) ==
    \/ state.step # "loading"
    \/ \E g \in inFlight : g.kind = "suggest" /\ g.id > f.id

\* C38: if the modal is closed (RESET) while a suggest request is in
\* flight, the late response or failure of that request does not change
\* the modal state: step, generationId and suggestedFlashcards stay as they
\* are until the user issues a new request, and the review step only ever
\* shows the result of the suggest issued last
C38_LateResponseIsIgnored ==
    [][\A f \in inFlight :
          (f.kind = "suggest" /\ f \notin inFlight' /\ Superseded(f)) =>
              state' = state]_vars

\* ------------------------------------------------------------------------
\* Generation metrics
\* ------------------------------------------------------------------------
\* C39: for every generations row, once accepted_cards_count is set it is
\* at most generated_cards_count: a commit cannot accept more cards than
\* the generation suggested
C39_AcceptedAtMostGenerated ==
    \A g \in DOMAIN generations :
        generations[g].accepted_cards_count # Null =>
            generations[g].accepted_cards_count[1] <= generations[g].generated_cards_count

====
